---- MODULE Spec2Model ----
(***************************************************************************)
(* A state-machine model of the black-oil PVT property engine of           *)
(* opm-material: the oil-phase PVT multiplexer (OilPvtMultiplexer), the    *)
(* wet-gas correlation (WetGasPvt) with its deck extraction, table         *)
(* extension (gap-fill) pass, finalize step and property queries, and the  *)
(* Newton inversion of the saturation pressure.                            *)
(*                                                                         *)
(* Several specifications share one set of variables:                      *)
(*   SpecMux    - life cycle of one OilPvtMultiplexer                      *)
(*   SpecDeck   - WetGasPvt::initFromDeck over a family of PVTG decks      *)
(*   SpecGas    - construction protocol and queries of one WetGasPvt with  *)
(*                its companion OilPvtMultiplexer                          *)
(*   SpecNewton - WetGasPvt::gasSaturationPressure, one Newton iteration   *)
(*                per step                                                 *)
(***************************************************************************)
EXTENDS Integers, Sequences, FiniteSets, TLC

VARIABLES
    \* ---- OilPvtMultiplexer (src/unnamed/part_000) ----
    approach_,      \* OilPvtApproach approach_
    realOilPvt_,    \* void *realOilPvt_ : index into heap, 0 = indeterminate
    heap,           \* free store: sequence of implementation objects
    muxAlive,       \* FALSE once ~OilPvtMultiplexer has run
    \* ---- WetGasPvt (src/opm/material/fluidsystems/blackoilpvt/WetGasPvt.hpp) ----
    deck,           \* the PVTG tables handed to initFromDeck, one per region
    gasPhase,       \* position of the WetGasPvt object in its construction protocol
    setup,          \* number of per-region setter calls made so far (setX path)
    oilPvt_,        \* const OilPvtMultiplexer *oilPvt_
    gasReferenceDensity_,
    oilReferenceDensity_,
    gasMolarMass_,
    oilMolarMass_,
    inverseGasB_,
    gasMu_,
    inverseGasBMu_,
    oilVaporizationFactorTable_,
    saturationPressureSpline_,
    \* ---- gasSaturationPressure in progress ----
    newton,
    \* ---- the call stack of a property query in progress ----
    frames,
    \* ---- property queries in progress on several threads ----
    threads,
    \* ---- the static members of the BlackOil fluid system ----
    fluid,
    \* ---- EclThermalLawManager (src/opm/material/thermal/EclThermalLawManager.hpp) ----
    thermal,
    \* ---- the BlackOil::ParameterCache objects constructed so far ----
    paramCaches,
    \* ---- observation ----
    last,           \* the operation executed by the latest step and its outcome
    queryLog        \* the property queries the latest construction step of WetGasPvt executed

muxVars == <<approach_, realOilPvt_, heap, muxAlive>>

gasStored == <<oilPvt_, gasReferenceDensity_, oilReferenceDensity_, gasMolarMass_,
               oilMolarMass_, inverseGasB_, gasMu_, inverseGasBMu_,
               oilVaporizationFactorTable_, saturationPressureSpline_>>

gasVars == <<deck, gasPhase, setup, gasStored>>

vars == <<muxVars, gasVars, newton, frames, threads, fluid, thermal, paramCaches,
          last, queryLog>>

(***************************************************************************)
(* Bounds of the model.                                                    *)
(***************************************************************************)
\* implementation objects one multiplexer may allocate before the model stops it
MaxAllocs == 2
\* largest value of a temperature / pressure / composition argument of a query
MaxArg == 2

(***************************************************************************)
(* Outcomes of a call.                                                     *)
(***************************************************************************)
Returned(v) == [kind |-> "value", val |-> v]
Thrown(e)   == [kind |-> "throw", val |-> e]
Done        == [kind |-> "void",  val |-> 0]
\* control left the switch through a break without returning
Break       == [kind |-> "break", val |-> 0]
\* behaviour the language leaves undefined
Undefined   == [kind |-> "undefined", val |-> 0]

NoCall == [obj |-> "none", op |-> "none", args |-> <<>>, pre |-> "none", out |-> Done]

\* the static members of BlackOil before any initBegin: the two flags are
\* zero-initialised statics, the per-region arrays are empty, no PVT object is set
FluidStatic ==
    [enableDissolvedGas_ |-> FALSE, enableVaporizedOil_ |-> FALSE,
     referenceDensity_ |-> <<>>, molarMass_ |-> <<>>,
     waterPvt_ |-> [deckInit |-> FALSE, ended |-> FALSE]]

(***************************************************************************)
(* OilPvtMultiplexer                                                       *)
(***************************************************************************)
NoOilPvt == "NoOilPvt"
LiveOilPvt == "LiveOilPvt"
DeadOilPvt == "DeadOilPvt"
ConstantCompressibilityOilPvt == "ConstantCompressibilityOilPvt"

OilPvtApproach == {NoOilPvt, LiveOilPvt, DeadOilPvt, ConstantCompressibilityOilPvt}

\* the property methods routed through the switch on approach_
MuxQueryOps == {"viscosity", "saturatedViscosity", "formationVolumeFactor",
                "saturatedFormationVolumeFactor", "density", "saturatedDensity",
                "saturatedGasDissolutionFactor", "saturationPressure"}

MuxDispatchedOps == MuxQueryOps \cup {"initEnd", "initFromDeck"}

\* the methods taking a composition argument besides (region, temperature, pressure)
MuxFourArgOps == {"viscosity", "formationVolumeFactor", "density"}

Regions == {0, 1}
ArgVals == 1..MaxArg

\* argument lists: <<regionIdx, temperature, pressure, Rs>>; the three-argument
\* methods are given <<regionIdx, temperature, x>> with x the pressure or, for
\* saturationPressure, Rs
MuxArgs(op) ==
    IF op \in MuxFourArgOps
    THEN {<<r, t, p, x>> : r \in Regions, t \in {1}, p \in ArgVals, x \in ArgVals}
    ELSE {<<r, t, p>> : r \in Regions, t \in {1}, p \in ArgVals}

\* What the owned implementation class answers.  The three classes are not part
\* of the sources at hand; a value is represented by the call that produced it.
\* Only live oil has a saturation pressure (comment of saturationPressure).
ImplCall(implKind, op, args) ==
    IF op = "saturationPressure" /\ implKind # LiveOilPvt
    THEN Thrown("implementation")
    ELSE Returned(<<implKind, op, args>>)

\* the class instantiated by each case of the switch in setApproach
NewImplFor_CopyPaste(appr) ==
    IF appr = DeadOilPvt THEN LiveOilPvt ELSE appr

NewImplFor(appr) == appr

NewObject(implKind) == [kind |-> implKind, frees |-> 0, deckInit |-> FALSE, ended |-> FALSE]

\* getRealPvt<approachV>(): the object realOilPvt_ points to, seen as approachV.
\* Casting the pointer to a class the object is not, or using a released or
\* indeterminate pointer, is undefined.
getRealPvt(approachV, ptr, hp) ==
    IF /\ approach_ = approachV
       /\ ptr \in 1..Len(hp)
       /\ hp[ptr].kind = approachV
       /\ hp[ptr].frees = 0
    THEN ptr
    ELSE 0

\* OPM_OIL_PVT_MULTIPLEXER_CALL(return pvtImpl.op(args)): the outcome of the switch
OPM_OIL_PVT_MULTIPLEXER_CALL_NoThrow(op, args) ==
    IF approach_ = NoOilPvt
    THEN Break
    ELSE LET p == getRealPvt(approach_, realOilPvt_, heap)
         IN IF p = 0 THEN Undefined ELSE ImplCall(heap[p].kind, op, args)

OPM_OIL_PVT_MULTIPLEXER_CALL(op, args) ==
    IF approach_ = NoOilPvt
    THEN Thrown("std::logic_error")
    ELSE LET p == getRealPvt(approach_, realOilPvt_, heap)
         IN IF p = 0 THEN Undefined ELSE ImplCall(heap[p].kind, op, args)

\* the value of the trailing "return 0" of every property method
FallbackValue == Returned(<<0>>)

\* a property method: the macro, then "return 0" when the switch was left by break
MuxQueryOutcome(op, args) ==
    LET d == OPM_OIL_PVT_MULTIPLEXER_CALL(op, args)
    IN IF d.kind = "break" THEN FallbackValue ELSE d

\* setApproach(appr) applied to the fields <<approach_, realOilPvt_, heap>>
\* a setApproach that stores the tag before the switch
setApproach_TagFirst(appr, a, p, h) ==
    IF appr = NoOilPvt
    THEN [thrown |-> TRUE, approach |-> appr, ptr |-> p, heap |-> h]
    ELSE [thrown |-> FALSE, approach |-> appr, ptr |-> Len(h) + 1,
          heap |-> Append(h, NewObject(NewImplFor(appr)))]

setApproach(appr, a, p, h) ==
    IF appr = NoOilPvt
    THEN [thrown |-> TRUE, approach |-> a, ptr |-> p, heap |-> h]
    ELSE [thrown |-> FALSE, approach |-> appr, ptr |-> Len(h) + 1,
          heap |-> Append(h, NewObject(NewImplFor(appr)))]

Call(obj, op, args, pre, out) ==
    [obj |-> obj, op |-> op, args |-> args, pre |-> pre, out |-> out]

\* void setApproach(OilPvtApproach appr)
MuxSetApproach(appr) ==
    /\ muxAlive
    /\ appr # NoOilPvt => Len(heap) < MaxAllocs
    /\ LET s == setApproach(appr, approach_, realOilPvt_, heap)
       IN /\ approach_' = s.approach
          /\ realOilPvt_' = s.ptr
          /\ heap' = s.heap
          /\ last' = Call("mux", "setApproach", <<appr>>, approach_,
                          IF s.thrown THEN Thrown("std::logic_error") ELSE Done)
    /\ UNCHANGED <<muxAlive, gasVars, newton, frames, threads, thermal, paramCaches, fluid, queryLog>>

DeckKeywords == {"PVCDO", "PVDO", "PVTO"}

\* the approach initFromDeck selects from the deck's keywords; NoOilPvt stands
\* for "setApproach is not called"
ApproachOfDeck(kws) ==
    IF "PVCDO" \in kws THEN ConstantCompressibilityOilPvt
    ELSE IF "PVDO" \in kws THEN DeadOilPvt
    ELSE IF "PVTO" \in kws THEN LiveOilPvt
    ELSE NoOilPvt

\* void initFromDeck(deck, eclState)
MuxInitFromDeck(kws) ==
    /\ muxAlive
    /\ ApproachOfDeck(kws) # NoOilPvt => Len(heap) < MaxAllocs
    /\ LET appr == ApproachOfDeck(kws)
           s == IF appr = NoOilPvt
                THEN [thrown |-> FALSE, approach |-> approach_, ptr |-> realOilPvt_,
                      heap |-> heap]
                ELSE setApproach(appr, approach_, realOilPvt_, heap)
           ok == /\ s.approach # NoOilPvt
                 /\ s.ptr \in 1..Len(s.heap)
                 /\ s.heap[s.ptr].kind = s.approach
       IN /\ approach_' = s.approach
          /\ realOilPvt_' = s.ptr
          /\ heap' = IF ok THEN [s.heap EXCEPT ![s.ptr].deckInit = TRUE] ELSE s.heap
          /\ last' = Call("mux", "initFromDeck", <<kws>>, approach_,
                          IF s.approach = NoOilPvt THEN Thrown("std::logic_error")
                          ELSE IF ok THEN Done ELSE Undefined)
    /\ UNCHANGED <<muxAlive, gasVars, newton, frames, threads, thermal, paramCaches, fluid, queryLog>>

\* void initEnd()
MuxInitEnd ==
    /\ muxAlive
    /\ LET d == OPM_OIL_PVT_MULTIPLEXER_CALL("initEnd", <<>>)
       IN /\ heap' = IF d.kind = "value"
                     THEN [heap EXCEPT ![realOilPvt_].ended = TRUE]
                     ELSE heap
          /\ last' = Call("mux", "initEnd", <<>>, approach_,
                          IF d.kind = "value" THEN Done ELSE d)
    /\ UNCHANGED <<approach_, realOilPvt_, muxAlive, gasVars, newton, frames, threads, thermal, paramCaches, fluid, queryLog>>

\* the const property methods viscosity ... saturationPressure
MuxQuery(op, args) ==
    /\ muxAlive
    /\ last' = Call("mux", op, args, approach_, MuxQueryOutcome(op, args))
    /\ UNCHANGED <<muxVars, gasVars, newton, frames, threads, thermal, paramCaches, fluid, queryLog>>

\* ~OilPvtMultiplexer(): delete &getRealPvt<approach_>()
MuxDestroy ==
    /\ muxAlive
    /\ muxAlive' = FALSE
    /\ LET p == getRealPvt(approach_, realOilPvt_, heap)
       IN /\ heap' = IF approach_ # NoOilPvt /\ p # 0
                     THEN [heap EXCEPT ![p].frees = @ + 1]
                     ELSE heap
          /\ last' = Call("mux", "destroy", <<>>, approach_,
                          IF approach_ # NoOilPvt /\ p = 0 THEN Undefined ELSE Done)
    /\ UNCHANGED <<approach_, realOilPvt_, gasVars, newton, frames, threads, thermal, paramCaches, fluid, queryLog>>

\* OilPvtMultiplexer(): approach_ = NoOilPvt; realOilPvt_ is left indeterminate
MuxInit ==
    /\ approach_ = NoOilPvt
    /\ realOilPvt_ = 0
    /\ heap = <<>>
    /\ muxAlive = TRUE

(***************************************************************************)
(* Scalars.  A Scalar is modelled as an exact fraction <<n, d>> with d > 0 *)
(* in lowest terms; rounding of the floating-point type is not modelled.   *)
(***************************************************************************)
Abs(n) == IF n < 0 THEN -n ELSE n

RECURSIVE Gcd(_, _)
Gcd(a, b) == IF b = 0 THEN a ELSE Gcd(b, a % b)

Frac(n, d) ==
    LET g == Gcd(Abs(n), Abs(d))
        sgn == IF d < 0 THEN -1 ELSE 1
    IN <<sgn * (n \div g), sgn * (d \div g)>>

Num(n) == <<n, 1>>
FMul(a, b) == Frac(a[1] * b[1], a[2] * b[2])
FDiv(a, b) == Frac(a[1] * b[2], a[2] * b[1])
FAdd(a, b) == Frac(a[1] * b[2] + b[1] * a[2], a[2] * b[2])
FSub(a, b) == Frac(a[1] * b[2] - b[1] * a[2], a[2] * b[2])
FLess(a, b) == a[1] * b[2] < b[1] * a[2]

(***************************************************************************)
(* UniformXTabulated2DFunction, as WetGasPvt uses it: an append-only       *)
(* sequence of outer positions, each with its own sequence of <<y, value>> *)
(* samples.  Indices are 1-based here, 0-based in the code.                *)
(***************************************************************************)
EmptyTable2D == [xPos |-> <<>>, samples |-> <<>>]

appendXPos(tab, x) ==
    [xPos |-> Append(tab.xPos, x), samples |-> Append(tab.samples, <<>>)]

appendSamplePoint(tab, i, y, value) ==
    [tab EXCEPT !.samples[i] = Append(@, <<y, value>>)]

numX(tab) == Len(tab.xPos)
numY(tab, i) == Len(tab.samples[i])
xAt(tab, i) == tab.xPos[i]
yAt(tab, i, j) == tab.samples[i][j][1]
valueAt(tab, i, j) == tab.samples[i][j][2]

\* Tabulated1DFunction::setXYArrays
setXYArrays(xs, ys) == [x |-> xs, y |-> ys]
EmptyTable1D == [x |-> <<>>, y |-> <<>>]

(***************************************************************************)
(* The PVTG deck of one region: the outer (saturated) table, one row per   *)
(* gas pressure, and for each outer row the inner (under-saturated) table  *)
(* whose first row is the saturated state.                                 *)
(***************************************************************************)
\* budget of outer rows over all regions of a deck
MaxRows == 4
\* largest number of inner rows of an outer row
MaxInner == 3

\* the columns of inner row k of outer row i in region r (1-based i, k)
DeckRv(r, i, k) == (i + 1) * (5 - k) + r
DeckBg(r, i, k) == i + k + r + 1
DeckMug(r, i, k) == 2 * i + k + r

\* the PVTG table of region r whose outer row i has shape[i] inner rows
PvtgTable(r, shape) ==
    [outer |-> [i \in 1..Len(shape) |->
        [pg |-> i,
         inner |-> [k \in 1..shape[i] |->
            [Rv |-> DeckRv(r, i, k), Bg |-> DeckBg(r, i, k), mug |-> DeckMug(r, i, k)]]]],
     rhoRefO |-> 8 + r,
     rhoRefG |-> 1 + r]

\* shapes of a table with n outer rows; the outer table has more than one row
\* (assert(saturatedTable->numRows() > 1)) and every inner table at least one
Shapes(n) == [1..n -> 1..MaxInner]

RECURSIVE ShapeLists(_)
ShapeLists(budget) ==
    {<<>>} \cup
    UNION { { <<s>> \o rest : s \in Shapes(n), rest \in ShapeLists(budget - n) }
            : n \in 2..budget }

Decks ==
    { [r \in 1..Len(sl) |-> PvtgTable(r - 1, sl[r])] : sl \in ShapeLists(MaxRows) \ {<<>>} }

numRows(pvtg) == Len(pvtg.outer)
getInnerTable(pvtg, i) == pvtg.outer[i].inner

(***************************************************************************)
(* WetGasPvt::initFromDeck                                                 *)
(***************************************************************************)
\* the stored per-region state of a WetGasPvt as one record
GasState ==
    [oilPvt |-> oilPvt_,
     gasReferenceDensity |-> gasReferenceDensity_,
     oilReferenceDensity |-> oilReferenceDensity_,
     gasMolarMass |-> gasMolarMass_,
     oilMolarMass |-> oilMolarMass_,
     inverseGasB |-> inverseGasB_,
     gasMu |-> gasMu_,
     inverseGasBMu |-> inverseGasBMu_,
     oilVaporizationFactorTable |-> oilVaporizationFactorTable_,
     saturationPressureSpline |-> saturationPressureSpline_]

\* the primed variables take the fields of record st
GasStateBecomes(st) ==
    /\ oilPvt_' = st.oilPvt
    /\ gasReferenceDensity_' = st.gasReferenceDensity
    /\ oilReferenceDensity_' = st.oilReferenceDensity
    /\ gasMolarMass_' = st.gasMolarMass
    /\ oilMolarMass_' = st.oilMolarMass
    /\ inverseGasB_' = st.inverseGasB
    /\ gasMu_' = st.gasMu
    /\ inverseGasBMu_' = st.inverseGasBMu
    /\ oilVaporizationFactorTable_' = st.oilVaporizationFactorTable
    /\ saturationPressureSpline_' = st.saturationPressureSpline

\* std::vector::resize(n, dflt)
Resize(v, n, dflt) == [i \in 1..n |-> IF i <= Len(v) THEN v[i] ELSE dflt]

EmptySpline == [points |-> <<>>]

\* void setNumRegions(size_t numRegions)
setNumRegions(st, n) ==
    [st EXCEPT !.oilMolarMass = Resize(@, n, Num(0)),
               !.gasMolarMass = Resize(@, n, Num(0)),
               !.oilReferenceDensity = Resize(@, n, Num(0)),
               !.gasReferenceDensity = Resize(@, n, Num(0)),
               !.inverseGasB = Resize(@, n, EmptyTable2D),
               !.inverseGasBMu = Resize(@, n, EmptyTable2D),
               !.gasMu = Resize(@, n, EmptyTable2D),
               !.oilVaporizationFactorTable = Resize(@, n, EmptyTable1D),
               !.saturationPressureSpline = Resize(@, n, EmptySpline)]

\* void setReferenceDensities(regionIdx, rhoRefOil, rhoRefGas, rhoRefWater)
setReferenceDensities(st, r, rhoRefOil, rhoRefGas) ==
    [st EXCEPT !.oilReferenceDensity[r] = rhoRefOil,
               !.gasReferenceDensity[r] = rhoRefGas]

\* void setMolarMasses(regionIdx, MOil, MGas, MWater)
setMolarMasses(st, r, MOil, MGas) ==
    [st EXCEPT !.oilMolarMass[r] = MOil,
               !.gasMolarMass[r] = MGas]

\* MO = 175e-3 kg/mol
OilMolarMassOfDeck == Frac(175, 1000)

\* MG = R*T*rhoRefG/p at surface conditions, kept as an expression in rhoRefG
IdealGasMolarMass(rhoRefG) == <<"rhoRefG*R*T/p", rhoRefG, rhoRefG>>

\* appendSamplePoint(i, ...) for the points pts[k], pts[k+1], ...
RECURSIVE AppendSamples(_, _, _, _)
AppendSamples(tab, i, pts, k) ==
    IF k > Len(pts) THEN tab
    ELSE AppendSamples(appendSamplePoint(tab, i, pts[k][1], pts[k][2]), i, pts, k + 1)

\* the samples (Rv, 1/Bg) and (Rv, mug) of the rows of an inner table
InvBSamples(inner) ==
    [k \in 1..Len(inner) |-> <<Num(inner[k].Rv), Frac(1, inner[k].Bg)>>]

MuSamples(inner) ==
    [k \in 1..Len(inner) |-> <<Num(inner[k].Rv), Num(inner[k].mug)>>]

\* the extraction loop over the outer rows outerIdx, outerIdx + 1, ...
RECURSIVE ExtractRows(_, _, _, _)
ExtractRows(pvtg, b, m, outerIdx) ==
    IF outerIdx > numRows(pvtg) THEN [invGasB |-> b, gasMu |-> m, out |-> Done]
    ELSE LET pg == Num(pvtg.outer[outerIdx].pg)
             b1 == appendXPos(b, pg)
             m1 == appendXPos(m, pg)
             inner == getInnerTable(pvtg, outerIdx)
         IN IF numX(b1) # outerIdx \/ numX(m1) # outerIdx
            THEN [invGasB |-> b1, gasMu |-> m1, out |-> Undefined]
            ELSE ExtractRows(pvtg,
                             AppendSamples(b1, outerIdx, InvBSamples(inner), 1),
                             AppendSamples(m1, outerIdx, MuSamples(inner), 1),
                             outerIdx + 1)

\* "if (invGasB.numY(xIdx) > 1) continue;"
RowIsComplete_FromDeck(pvtg, b, xIdx) == Len(getInnerTable(pvtg, xIdx)) > 1

RowIsComplete(pvtg, b, xIdx) == numY(b, xIdx) > 1

\* "if (pvtgTable.getInnerTable(masterTableIdx)->numRows() > 1) break;"
MasterCriterion_AnyRow(n) == n > 0

MasterCriterion(n) == n > 1

\* the search loop for the master table, started at index j
RECURSIVE FindMaster(_, _)
FindMaster(pvtg, j) ==
    IF j > numRows(pvtg) THEN j
    ELSE IF MasterCriterion(Len(getInnerTable(pvtg, j))) THEN j
    ELSE FindMaster(pvtg, j + 1)

\* a search that starts at the first outer row
masterTableIdx_FromStart(pvtg, xIdx) == FindMaster(pvtg, 1)

\* "size_t masterTableIdx = xIdx + 1; for (...)"
masterTableIdx(pvtg, xIdx) == FindMaster(pvtg, xIdx + 1)

\* "if (masterTableIdx >= pvtgTable.getOuterTable()->numRows())", 1-based
NoMasterFound_OffByOne(masterIdx, n) == masterIdx > n + 1

NoMasterFound(masterIdx, n) == masterIdx > n

\* the points synthesized for the current table from the master table:
\* rows newRowIdx = 1 .. numRows-1 of the master table (0-based)
ExtensionRows(masterTable) == 2..Len(masterTable)

NewInvBSample(curTable, masterTable, k) ==
    LET alphaRv == Frac(masterTable[k].Rv, masterTable[1].Rv)
        alphaBg == Frac(masterTable[k].Bg, masterTable[1].Bg)
        newRv == FMul(Num(curTable[1].Rv), alphaRv)
        newBg == FMul(Num(curTable[1].Bg), alphaBg)
    IN <<newRv, FDiv(Num(1), newBg)>>

\* a synthesized point stored at the master row's own Rv
NewMuSample_MasterRv(curTable, masterTable, k) ==
    <<Num(masterTable[k].Rv),
      FMul(Num(curTable[1].mug), Frac(masterTable[k].mug, masterTable[1].mug))>>

\* a synthesized point whose ratios are taken to the preceding row of the
\* master table instead of its first row
NewMuSample_ToPrevious(curTable, masterTable, k) ==
    <<FMul(Num(curTable[1].Rv), Frac(masterTable[k].Rv, masterTable[k - 1].Rv)),
      FMul(Num(curTable[1].mug), Frac(masterTable[k].mug, masterTable[k - 1].mug))>>

NewMuSample(curTable, masterTable, k) ==
    LET alphaRv == Frac(masterTable[k].Rv, masterTable[1].Rv)
        alphaMug == Frac(masterTable[k].mug, masterTable[1].mug)
        newRv == FMul(Num(curTable[1].Rv), alphaRv)
        newMug == FMul(Num(curTable[1].mug), alphaMug)
    IN <<newRv, newMug>>

\* the pass "make sure to have at least two sample points per mole fraction",
\* from outer position xIdx on
RECURSIVE GapFillFrom(_, _, _, _)
GapFillFrom(pvtg, b, m, xIdx) ==
    IF xIdx > numX(b) THEN [invGasB |-> b, gasMu |-> m, out |-> Done]
    ELSE IF numY(b, xIdx) = 0 THEN [invGasB |-> b, gasMu |-> m, out |-> Undefined]
    ELSE IF RowIsComplete(pvtg, b, xIdx) THEN GapFillFrom(pvtg, b, m, xIdx + 1)
    ELSE LET master == masterTableIdx(pvtg, xIdx)
         IN IF NoMasterFound(master, numRows(pvtg))
            THEN [invGasB |-> b, gasMu |-> m, out |-> Thrown("std::runtime_error")]
            ELSE IF master > numRows(pvtg)
            THEN [invGasB |-> b, gasMu |-> m, out |-> Undefined]
            ELSE LET masterTable == getInnerTable(pvtg, master)
                     curTable == getInnerTable(pvtg, xIdx)
                     rows == ExtensionRows(masterTable)
                     bPts == [k \in 1..Cardinality(rows) |->
                                 NewInvBSample(curTable, masterTable, k + 1)]
                     mPts == [k \in 1..Cardinality(rows) |->
                                 NewMuSample(curTable, masterTable, k + 1)]
                 IN GapFillFrom(pvtg,
                                AppendSamples(b, xIdx, bPts, 1),
                                AppendSamples(m, xIdx, mPts, 1),
                                xIdx + 1)

GapFillPass(pvtg, b, m) == GapFillFrom(pvtg, b, m, 1)

\* the body of the loop over the regions, for region r (1-based)
InitRegionFromDeck(st, pvtg, r) ==
    LET s1 == setReferenceDensities(st, r, Num(pvtg.rhoRefO), Num(pvtg.rhoRefG))
        s2 == setMolarMasses(s1, r, OilMolarMassOfDeck, IdealGasMolarMass(Num(pvtg.rhoRefG)))
        s3 == [s2 EXCEPT !.oilVaporizationFactorTable[r] =
                  setXYArrays([i \in 1..numRows(pvtg) |-> Num(pvtg.outer[i].pg)],
                              [i \in 1..numRows(pvtg) |-> Num(pvtg.outer[i].inner[1].Rv)])]
        ex == ExtractRows(pvtg, s3.inverseGasB[r], s3.gasMu[r], 1)
        gf == IF ex.out = Done THEN GapFillPass(pvtg, ex.invGasB, ex.gasMu) ELSE ex
    IN [st |-> [s3 EXCEPT !.inverseGasB[r] = gf.invGasB, !.gasMu[r] = gf.gasMu],
        out |-> gf.out]

\* the loop over the regions r, r + 1, ...; an exception leaves the loop
RECURSIVE InitRegionsFromDeck(_, _, _)
InitRegionsFromDeck(st, dk, r) ==
    IF r > Len(dk) THEN [st |-> st, out |-> Done, region |-> 0]
    ELSE LET one == InitRegionFromDeck(st, dk[r], r)
         IN IF one.out # Done
            THEN [st |-> one.st, out |-> one.out, region |-> r]
            ELSE InitRegionsFromDeck(one.st, dk, r + 1)

initFromDeck(st, dk) == InitRegionsFromDeck(setNumRegions(st, Len(dk)), dk, 1)

\* void initFromDeck(deck, eclState)
GasInitFromDeck ==
    /\ gasPhase = "constructed"
    /\ LET res == initFromDeck(GasState, deck)
       IN /\ GasStateBecomes(res.st)
          /\ gasPhase' = IF res.out = Done THEN "deckDone" ELSE "failed"
          /\ last' = Call("gas", "initFromDeck", <<res.region>>, gasPhase, res.out)
          /\ queryLog' = {}
    /\ UNCHANGED <<deck, setup, muxVars, newton, frames, threads, thermal, paramCaches, fluid>>

(***************************************************************************)
(* Tabulated1DFunction: linear interpolation between the bracketing        *)
(* samples, the edge segment extended beyond the ends.                     *)
(***************************************************************************)
numSamples(tab) == Len(tab.x)
xMin(tab) == tab.x[1]
xMax(tab) == tab.x[Len(tab.x)]

\* the segment [x[i], x[i+1]] used for x
RECURSIVE SegmentFrom(_, _, _)
SegmentFrom(tab, x, i) ==
    IF i >= Len(tab.x) - 1 THEN i
    ELSE IF FLess(x, tab.x[i + 1]) THEN i
    ELSE SegmentFrom(tab, x, i + 1)

Eval1D(tab, x) ==
    LET i == SegmentFrom(tab, x, 1)
        slope == FDiv(FSub(tab.y[i + 1], tab.y[i]), FSub(tab.x[i + 1], tab.x[i]))
    IN FAdd(tab.y[i], FMul(slope, FSub(x, tab.x[i])))

(***************************************************************************)
(* WetGasPvt: the saturated branch and the finalize step                   *)
(***************************************************************************)
\* Evaluation oilVaporizationFactor(regionIdx, temperature, pressure)
oilVaporizationFactor(st, r, pressure) ==
    Eval1D(st.oilVaporizationFactorTable[r], pressure)

\* Evaluation saturatedGasOilMassFraction(regionIdx, temperature, pressure)
saturatedGasOilMassFraction(st, r, pressure) ==
    LET rho_gRef == st.gasReferenceDensity[r]
        rho_oRef == st.oilReferenceDensity[r]
        Rv == oilVaporizationFactor(st, r, pressure)
        rho_gO == FMul(Rv, rho_oRef)
    IN FDiv(rho_gO, FAdd(rho_gRef, rho_gO))

\* a property query executed on state st for region r, and who called it
QueryRec(op, by, st, r) ==
    [op |-> op, by |-> by,
     finalized |-> gasPhase = "finalized",
     splineReady |-> Len(st.saturationPressureSpline[r].points) > 0]

\* void updateSaturationPressureSpline_(regionIdx): the (XgO, pSat) pairs handed
\* to Spline::setContainerOfTuples
updateSaturationPressureSpline_(st, r) ==
    LET tab == st.oilVaporizationFactorTable[r]
        n == numSamples(tab) * 5
        delta == FDiv(FSub(xMax(tab), xMin(tab)), Num(n + 1))
        pSatAt(i) == FAdd(xMin(tab), FMul(Num(i), delta))
    IN [st EXCEPT !.saturationPressureSpline[r] =
           [points |-> [k \in 1..(n + 1) |->
               <<saturatedGasOilMassFraction(st, r, pSatAt(k - 1)), pSatAt(k - 1)>>]]]

\* products and quotients of table values; a value that is kept as an
\* expression (a 3-tuple) yields an expression
IsNum(v) == Len(v) = 2
VMul(a, b) == IF IsNum(a) /\ IsNum(b) THEN FMul(a, b) ELSE <<"*", a, b>>
VDiv(a, b) == IF IsNum(a) /\ IsNum(b) THEN FDiv(a, b) ELSE <<"/", a, b>>

\* the (y, value) samples initEnd appends at outer position pIdx
InvBMuSamples(gasMu, invGasB, pIdx) ==
    [j \in 1..numY(gasMu, pIdx) |->
        <<yAt(gasMu, pIdx, j),
          VDiv(VMul(valueAt(invGasB, pIdx, j), Num(1)), valueAt(gasMu, pIdx, j))>>]

\* The loop of initEnd over the outer positions of one region: "appendXPos;
\* assert(numY equal); for each inner sample appendSamplePoint(pIdx, ...)".
\* The loop is left at the first position whose inner sizes differ.
BuildInvGasBMu(tab, gasMu, invGasB) ==
    LET bad == {q \in 1..numX(gasMu) : numY(gasMu, q) # numY(invGasB, q)}
        stop == IF bad = {} THEN numX(gasMu) + 1
                ELSE CHOOSE q \in bad : \A o \in bad : q <= o
        nApp == IF bad = {} THEN numX(gasMu) ELSE stop
        xs == tab.xPos \o [i \in 1..nApp |-> xAt(gasMu, i)]
        rows == tab.samples \o [i \in 1..nApp |-> <<>>]
    IN [tab |-> [xPos |-> xs,
                 samples |-> [i \in 1..Len(rows) |->
                                 IF i < stop
                                 THEN rows[i] \o InvBMuSamples(gasMu, invGasB, i)
                                 ELSE rows[i]]],
        out |-> IF bad = {} THEN Done ELSE Undefined]

\* the loop of initEnd over the regions r, r + 1, ...; reached counts the
\* regions whose saturation pressure spline was rebuilt
RECURSIVE InitEndRegions(_, _)
InitEndRegions(st, r) ==
    IF r > Len(st.gasMu) THEN [st |-> st, out |-> Done, reached |-> r - 1]
    ELSE IF numX(st.gasMu[r]) # numX(st.inverseGasB[r])
    THEN [st |-> st, out |-> Undefined, reached |-> r - 1]
    ELSE LET bm == BuildInvGasBMu(st.inverseGasBMu[r], st.gasMu[r], st.inverseGasB[r])
             s1 == [st EXCEPT !.inverseGasBMu[r] = bm.tab]
         IN IF bm.out # Done THEN [st |-> s1, out |-> bm.out, reached |-> r - 1]
            ELSE IF numSamples(s1.oilVaporizationFactorTable[r]) < 2
            THEN [st |-> s1, out |-> Undefined, reached |-> r - 1]
            ELSE InitEndRegions(updateSaturationPressureSpline_(s1, r), r + 1)

\* void initEnd(const OilPvtMultiplexer *oilPvt), with the property queries it
\* executes through updateSaturationPressureSpline_
initEnd(st, oilPvt) ==
    LET res == InitEndRegions([st EXCEPT !.oilPvt = oilPvt], 1)
    IN [st |-> res.st, out |-> res.out,
        queries |-> UNION {{QueryRec("saturatedGasOilMassFraction",
                                     "updateSaturationPressureSpline_", st, r),
                            QueryRec("oilVaporizationFactor",
                                     "saturatedGasOilMassFraction", st, r)}
                           : r \in 1..res.reached}]

\* the companion multiplexer of the fluid system, as a pointer value
TheOilPvt == 1

\* gasPvt_->initEnd(oilPvt_.get()), reached only when initFromDeck returned
GasInitEnd ==
    /\ gasPhase \in {"deckDone", "tablesSet"}
    /\ LET res == initEnd(GasState, TheOilPvt)
       IN /\ GasStateBecomes(res.st)
          /\ gasPhase' = IF res.out = Done THEN "finalized" ELSE "failed"
          /\ last' = Call("gas", "initEnd", <<>>, gasPhase, res.out)
          /\ queryLog' = res.queries
    /\ UNCHANGED <<deck, setup, muxVars, newton, frames, threads, thermal, paramCaches, fluid>>

(***************************************************************************)
(* WetGasPvt: construction from saturated curves (the setX methods)        *)
(***************************************************************************)
\* "size_t nRv = 20;"
nRv == 20

\* the saturated curves handed to the setters: (pressure, value) pairs
RvSamplePoints == {<< <<Num(1), Num(4)>>, <<Num(3), Num(8)>> >>}
BgSamplePoints == {<< <<Num(1), Num(2)>>, <<Num(3), Num(1)>> >>}
MugSamplePoints == {<< <<Num(1), Num(1)>>, <<Num(3), Num(2)>> >>}

\* Tabulated1DFunction::setContainerOfTuples
setContainerOfTuples(pts) ==
    [x |-> [i \in 1..Len(pts) |-> pts[i][1]], y |-> [i \in 1..Len(pts) |-> pts[i][2]]]

\* the outer position of index RvIdx (0-based) and the inner coordinate of index
\* pIdx (0-based) of the guessed tables
GuessRv(RvMax, RvIdx) == FDiv(FMul(RvMax, Num(RvIdx)), Num(nRv))
GuessPg(poMin, poMax, pIdx, nP) ==
    FAdd(poMin, FDiv(FMul(FSub(poMax, poMin), Num(pIdx)), Num(nP)))

\* The guessed values themselves come out of Spline::eval and of the Newton
\* inversion; they are kept as the expression that produced them.
GuessInvBg(Rv, pg) == <<"(1 + drhoo_dp*(pg - poSat))/BgSat", Rv, pg>>
GuessMug(pg) == <<"mugSpline.eval", pg, pg>>

\* the nP samples appended to row RvIdx (0-based) of a guessed table
GuessRowSamples(which, RvMax, poMin, poMax, nP, RvIdx) ==
    [k \in 1..nP |->
        LET pg == GuessPg(poMin, poMax, k - 1, nP)
        IN <<pg, IF which = "invGasB" THEN GuessInvBg(GuessRv(RvMax, RvIdx), pg)
                 ELSE GuessMug(pg)>>]

\* The loop "for RvIdx < upTo: appendXPos(Rv); for pIdx < nP:
\* appendSamplePoint(RvIdx, pg, value)" applied to tab: upTo positions are
\* appended, and the samples go to the rows of index 0 .. upTo - 1.
GuessRows(tab, which, RvMax, poMin, poMax, nP, upTo) ==
    LET xs == tab.xPos \o [i \in 1..upTo |-> GuessRv(RvMax, i - 1)]
        rows == tab.samples \o [i \in 1..upTo |-> <<>>]
    IN [xPos |-> xs,
        samples |-> [i \in 1..Len(rows) |->
                        IF i <= upTo
                        THEN rows[i] \o GuessRowSamples(which, RvMax, poMin, poMax, nP, i - 1)
                        ELSE rows[i]]]

\* void setSaturatedGasOilVaporizationFactor(regionIdx, samplePoints)
setSaturatedGasOilVaporizationFactor(st, r, samplePoints) ==
    [st EXCEPT !.oilVaporizationFactorTable[r] = setContainerOfTuples(samplePoints)]

\* void setSaturatedGasFormationVolumeFactor(regionIdx, samplePoints); the Newton
\* inversion called for the samples of row failAt (0-based) throws, or none
\* does when failAt = nRv
setSaturatedGasFormationVolumeFactor(st, r, samplePoints, failAt) ==
    LET RvTable == st.oilVaporizationFactorTable[r]
        RvMax == Eval1D(RvTable, xMax(RvTable))
        poMin == samplePoints[1][1]
        poMax == samplePoints[Len(samplePoints)][1]
        nP == Len(samplePoints) * 2
        s1 == updateSaturationPressureSpline_(st, r)
        full == GuessRows(s1.inverseGasB[r], "invGasB", RvMax, poMin, poMax, nP, failAt)
        tab == IF failAt < nRv THEN appendXPos(full, GuessRv(RvMax, failAt)) ELSE full
    IN [st |-> [s1 EXCEPT !.inverseGasB[r] = tab],
        out |-> IF failAt < nRv THEN Thrown("NumericalIssue") ELSE Done,
        queries |-> {QueryRec("saturatedGasOilMassFraction",
                              "updateSaturationPressureSpline_", st, r),
                     QueryRec("oilVaporizationFactor",
                              "saturatedGasOilMassFraction", st, r),
                     QueryRec("gasSaturationPressure",
                              "setSaturatedGasFormationVolumeFactor", s1, r),
                     QueryRec("saturatedGasOilMassFraction",
                              "gasSaturationPressure", s1, r),
                     QueryRec("oilVaporizationFactor",
                              "saturatedGasOilMassFraction", s1, r)}]

\* void setSaturatedGasViscosity(regionIdx, samplePoints)
setSaturatedGasViscosity(st, r, samplePoints) ==
    LET RvTable == st.oilVaporizationFactorTable[r]
        RvMax == Eval1D(RvTable, xMax(RvTable))
        poMin == samplePoints[1][1]
        poMax == samplePoints[Len(samplePoints)][1]
        nP == Len(samplePoints) * 2
    IN [st EXCEPT !.gasMu[r] = GuessRows(@, "gasMu", RvMax, poMin, poMax, nP, nRv)]

(***************************************************************************)
(* WetGasPvt: the setX methods as steps of the construction protocol       *)
(* "region count, then per region: reference densities, molar masses,      *)
(* saturated Rv, saturated Bg, saturated viscosity".                       *)
(***************************************************************************)
SetterSteps == <<"setReferenceDensities", "setMolarMasses",
                 "setSaturatedGasOilVaporizationFactor",
                 "setSaturatedGasFormationVolumeFactor", "setSaturatedGasViscosity">>

\* the region (1-based) and the setter the next call of the protocol is for
SetupRegion == (setup \div Len(SetterSteps)) + 1
SetupStep == SetterSteps[(setup % Len(SetterSteps)) + 1]

\* the values the driver passes to the per-region setters
ManualRhoRefOil == Num(8)
ManualRhoRefGas == Num(2)
ManualMOil == Frac(175, 1000)
ManualMGas == Frac(16, 1000)

\* a setter that returned normally: the next setter, or all tables are set
SetterReturns(op, r, st, queries) ==
    /\ GasStateBecomes(st)
    /\ setup' = setup + 1
    /\ gasPhase' = IF setup + 1 = Len(SetterSteps) * Len(st.gasMu)
                   THEN "tablesSet" ELSE "manual"
    /\ last' = Call("gas", op, <<r - 1>>, gasPhase, Done)
    /\ queryLog' = queries
    /\ UNCHANGED <<deck, muxVars, newton, frames, threads, thermal, paramCaches, fluid>>

\* the driver that has no deck sets the number of regions itself
GasSetNumRegions(n) ==
    /\ gasPhase = "constructed"
    /\ deck = <<>>
    /\ GasStateBecomes(setNumRegions(GasState, n))
    /\ gasPhase' = "manual"
    /\ last' = Call("gas", "setNumRegions", <<n>>, gasPhase, Done)
    /\ queryLog' = {}
    /\ UNCHANGED <<deck, setup, muxVars, newton, frames, threads, thermal, paramCaches, fluid>>

GasSetReferenceDensities ==
    /\ gasPhase = "manual"
    /\ SetupStep = "setReferenceDensities"
    /\ SetterReturns("setReferenceDensities", SetupRegion,
           setReferenceDensities(GasState, SetupRegion, ManualRhoRefOil, ManualRhoRefGas),
           {})

GasSetMolarMasses ==
    /\ gasPhase = "manual"
    /\ SetupStep = "setMolarMasses"
    /\ SetterReturns("setMolarMasses", SetupRegion,
           setMolarMasses(GasState, SetupRegion, ManualMOil, ManualMGas), {})

GasSetSaturatedGasOilVaporizationFactor(samplePoints) ==
    /\ gasPhase = "manual"
    /\ SetupStep = "setSaturatedGasOilVaporizationFactor"
    /\ SetterReturns("setSaturatedGasOilVaporizationFactor", SetupRegion,
           setSaturatedGasOilVaporizationFactor(GasState, SetupRegion, samplePoints), {})

\* the setter returns, or the NumericalIssue of gasSaturationPressure leaves it
GasSetSaturatedGasFormationVolumeFactor(samplePoints, failAt) ==
    /\ gasPhase = "manual"
    /\ SetupStep = "setSaturatedGasFormationVolumeFactor"
    /\ LET res == setSaturatedGasFormationVolumeFactor(GasState, SetupRegion,
                                                       samplePoints, failAt)
       IN IF res.out = Done
          THEN SetterReturns("setSaturatedGasFormationVolumeFactor", SetupRegion,
                             res.st, res.queries)
          ELSE /\ GasStateBecomes(res.st)
               /\ gasPhase' = "failed"
               /\ last' = Call("gas", "setSaturatedGasFormationVolumeFactor",
                               <<SetupRegion - 1>>, gasPhase, res.out)
               /\ queryLog' = res.queries
               /\ UNCHANGED <<deck, setup, muxVars, newton, frames, threads, thermal, paramCaches, fluid>>

GasSetSaturatedGasViscosity(samplePoints) ==
    /\ gasPhase = "manual"
    /\ SetupStep = "setSaturatedGasViscosity"
    /\ SetterReturns("setSaturatedGasViscosity", SetupRegion,
           setSaturatedGasViscosity(GasState, SetupRegion, samplePoints), {})

\* the 2-D tables a caller hands to setInverseGasFormationVolumeFactor and
\* setGasViscosity: one outer position with two samples
ManualInvBgTables ==
    {[xPos |-> <<Num(7)>>, samples |-> << <<<<Num(1), Num(5)>>, <<Num(2), Num(6)>>>> >>]}
ManualMugTables ==
    {[xPos |-> <<Num(7)>>, samples |-> << <<<<Num(1), Num(5)>>, <<Num(2), Num(6)>>>> >>]}

\* void setInverseGasFormationVolumeFactor(unsigned regionIdx, const TabulatedTwoDFunction& invBg)
setInverseGasFormationVolumeFactor(st, r, invBg) == [st EXCEPT !.inverseGasB[r] = invBg]

\* void setGasViscosity(unsigned regionIdx, const TabulatedTwoDFunction& mug)
setGasViscosity(st, r, mug) == [st EXCEPT !.gasMu[r] = mug]

\* the regions (1-based) a caller hands a table of its own to: regionIdx 0
DirectRegions == {1}

\* the two setters are no part of the protocol of the driver that has no
\* deck: it may call them at any point between setNumRegions and initEnd; the
\* tables are in the order (Rv, pressure) of the other setters
GasSetInverseGasFormationVolumeFactor(r, invBg) ==
    /\ gasPhase \in {"manual", "tablesSet"}
    /\ r \in 1..Len(inverseGasB_)
    /\ GasStateBecomes(setInverseGasFormationVolumeFactor(GasState, r, invBg))
    /\ last' = Call("gas", "setInverseGasFormationVolumeFactor", <<r - 1>>, gasPhase, Done)
    /\ queryLog' = {}
    /\ UNCHANGED <<deck, gasPhase, setup, muxVars, newton, frames, threads, thermal,
                   paramCaches, fluid>>

GasSetGasViscosity(r, mug) ==
    /\ gasPhase \in {"manual", "tablesSet"}
    /\ r \in 1..Len(gasMu_)
    /\ GasStateBecomes(setGasViscosity(GasState, r, mug))
    /\ last' = Call("gas", "setGasViscosity", <<r - 1>>, gasPhase, Done)
    /\ queryLog' = {}
    /\ UNCHANGED <<deck, gasPhase, setup, muxVars, newton, frames, threads, thermal,
                   paramCaches, fluid>>

(***************************************************************************)
(* WetGasPvt: the property queries (const methods)                         *)
(***************************************************************************)
GasQueryOps == {"viscosity", "density", "formationVolumeFactor",
                "fugacityCoefficientGas", "fugacityCoefficientOil",
                "oilVaporizationFactor", "gasSaturationPressure",
                "saturatedGasOilMassFraction", "saturatedGasOilMoleFraction"}

\* the queries taking <<regionIdx, temperature, pressure, XgO>>
GasFourArgOps == {"viscosity", "density", "formationVolumeFactor"}

\* pressures and oil mass fractions of the gas phase (0 < XgO < 1) offered to
\* the queries
GasPressures == {Num(p) : p \in ArgVals}
GasXgOs == {Frac(1, 4), Frac(1, 2)}

\* argument lists <<regionIdx, pressure, XgO>> (the temperature is ignored by
\* every table); gasSaturationPressure takes XgO only, the others pressure only
GasArgs(op, n) ==
    IF op \in GasFourArgOps
    THEN {<<r, p, x>> : r \in 0..(n - 1), p \in GasPressures, x \in GasXgOs}
    ELSE IF op = "gasSaturationPressure"
    THEN {<<r, Num(0), x>> : r \in 0..(n - 1), x \in GasXgOs}
    ELSE {<<r, p, Num(0)>> : r \in 0..(n - 1), p \in GasPressures}

\* Rv = XgO/(1 - XgO)*(rhogRef/rhooRef)
RvOfXgO(st, r, XgO) ==
    FMul(FDiv(XgO, FSub(Num(1), XgO)),
         FDiv(st.gasReferenceDensity[r], st.oilReferenceDensity[r]))

\* The answer of a query.  An evaluation of a 2-D table is kept as the table
\* with the arguments of eval, evaluations of the spline and of the companion
\* as the expression with its arguments; converged tells whether the Newton
\* inversion of gasSaturationPressure met its tolerance.
\*   viscosity:             invBg/invMugBg, both tables at (pressure, Rv)
\*   formationVolumeFactor: 1.0/inverseGasB_[regionIdx].eval(pressure, Rv, true)
\*   density:               rhog = rhogRef/Bg; rhog += (rhogRef*Rv)/Bg, with
\*                          Bg = formationVolumeFactor(regionIdx, T, pressure, XgO)
GasQueryOutcome(st, op, args, converged) ==
    LET r == args[1] + 1
        pressure == args[2]
        XgO == args[3]
        rhogRef == st.gasReferenceDensity[r]
        Rv == RvOfXgO(st, r, XgO)
        invBg == <<"inverseGasB_.eval", st.inverseGasB[r], <<pressure, Rv, TRUE>>>>
        invMugBg == <<"inverseGasBMu_.eval", st.inverseGasBMu[r], <<pressure, Rv, TRUE>>>>
        Bg == VDiv(Num(1), invBg)
    IN CASE op = "viscosity" -> Returned(VDiv(invBg, invMugBg))
         [] op = "density" ->
              Returned(<<"+", VDiv(rhogRef, Bg), VDiv(FMul(rhogRef, Rv), Bg)>>)
         [] op = "formationVolumeFactor" -> Returned(Bg)
         [] op = "fugacityCoefficientGas" -> Returned(Num(1))
         [] op = "fugacityCoefficientOil" ->
              IF st.oilPvt = 0 THEN Undefined
              ELSE Returned(<<"phi_oO/x_gOSat", pressure,
                              saturatedGasOilMassFraction(st, r, pressure)>>)
         [] op = "oilVaporizationFactor" ->
              Returned(oilVaporizationFactor(st, r, pressure))
         [] op = "gasSaturationPressure" ->
              IF converged THEN Returned(<<"pSat", XgO, XgO>>)
              ELSE Thrown("NumericalIssue")
         [] op = "saturatedGasOilMassFraction" ->
              Returned(saturatedGasOilMassFraction(st, r, pressure))
         [] op = "saturatedGasOilMoleFraction" ->
              Returned(<<"XgO*avgMolarMass/MO",
                         saturatedGasOilMassFraction(st, r, pressure),
                         VDiv(st.oilMolarMass[r], st.gasMolarMass[r])>>)

\* the companion multiplexer has been finalized by the fluid system as well
CompanionReady ==
    /\ realOilPvt_ \in 1..Len(heap)
    /\ heap[realOilPvt_].ended

\* a query that builds the inverse(B*mu) table on first use
GasQuery_LazyInit(op, args, converged) ==
    /\ gasPhase = "finalized"
    /\ CompanionReady
    /\ op = "gasSaturationPressure" \/ converged
    /\ GasStateBecomes(IF op = "viscosity" THEN initEnd(GasState, oilPvt_).st
                       ELSE GasState)
    /\ last' = Call("gas", op, args, gasPhase,
                    GasQueryOutcome(GasState, op, args, converged))
    /\ UNCHANGED <<deck, gasPhase, setup, muxVars, newton, frames, threads, thermal, paramCaches, fluid, queryLog>>

\* a property query issued by the fluid system, which finalizes the object
\* before it returns from its own initialization
GasQuery(op, args, converged) ==
    /\ gasPhase = "finalized"
    /\ CompanionReady
    /\ op = "gasSaturationPressure" \/ converged
    /\ last' = Call("gas", op, args, gasPhase,
                    GasQueryOutcome(GasState, op, args, converged))
    /\ UNCHANGED <<deck, gasPhase, setup, gasStored, muxVars, newton, frames, threads, thermal, paramCaches, fluid, queryLog>>

(***************************************************************************)
(* WetGasPvt::gasSaturationPressure, one loop iteration per step.          *)
(*                                                                         *)
(* A pressure or a Newton step is the exact number hi + lo*1e-10, written  *)
(* <<hi, lo>> with small integers hi and lo, so that the tolerance         *)
(* comparison |delta| < |pSat|*1e-10 is decided exactly.  <<"nonfinite">>  *)
(* is the NaN or infinity a division by a zero fPrime yields.  The step    *)
(* delta = f/fPrime depends on the tables; every step of the range below   *)
(* is allowed in every iteration.                                          *)
(***************************************************************************)
\* "for (unsigned i = 0; i < 20; ++i)"
NewtonMaxIter == 20

\* largest |hi| and |lo| of an iterate
MaxPSat == 1
MaxPSatLo == 2
\* largest |lo| of a Newton step
MaxStepLo == 1

NonFinite == <<"nonfinite">>
IsFinite(x) == Len(x) = 2

Deltas == {<<dhi, dlo>> : dhi \in -1..1, dlo \in -MaxStepLo..MaxStepLo} \cup {NonFinite}

\* the seeds saturationPressureSpline_.eval(XgO) may return
Seeds == {<<hi, 0>> : hi \in 0..MaxPSat}

\* pSat -= delta
NewtonUpdate(pSat, delta) ==
    IF IsFinite(pSat) /\ IsFinite(delta)
    THEN <<pSat[1] - delta[1], pSat[2] - delta[2]>>
    ELSE NonFinite

\* |delta| < |pSat|*1e-10 for delta = dhi + dlo*1e-10 and pSat = hi + lo*1e-10.
\* A comparison with a NaN is false, and so is inf < inf.  With dhi # 0 the left
\* side is at least 1 - MaxStepLo*1e-10, above the right side.  With dhi = 0 the
\* comparison is |dlo| < |hi + lo*1e-10|.
WithinTolerance(delta, pSat) ==
    IF ~IsFinite(delta) \/ ~IsFinite(pSat) THEN FALSE
    ELSE IF delta[1] # 0 THEN FALSE
    ELSE IF pSat[1] = 0 THEN delta[2] = 0 /\ pSat[2] # 0
    ELSE \/ Abs(delta[2]) < Abs(pSat[1])
         \/ /\ Abs(delta[2]) = Abs(pSat[1])
            /\ (IF pSat[1] > 0 THEN pSat[2] ELSE -pSat[2]) > 0

\* the test "std::abs(delta) < std::abs(pSat)*1e-10" made after "pSat -= delta"
Converged(delta, pSatOld, pSatNew) == WithinTolerance(delta, pSatNew)

\* the loop condition
LoopContinues_OffByOne(i) == i <= NewtonMaxIter

LoopContinues(i) == i < NewtonMaxIter

\* the iterates the model follows
InRange(pSat) ==
    IsFinite(pSat) => (Abs(pSat[1]) <= MaxPSat /\ Abs(pSat[2]) <= MaxPSatLo)

\* the values streamed into the message of the exception:
\* "Could find the gas saturation pressure for X_g^O = " << XgO
NumericalIssueMessage(regionIdx, XgO) ==
    [text |-> "Could find the gas saturation pressure for X_g^O = ", XgO |-> XgO]

NoMessage == [text |-> ""]

\* entry: pSat = spline value, eps = pSat*1e-11 (computed once, before the loop)
NewtonStart(regionIdx, XgO, seed) ==
    /\ newton.pc = "idle"
    /\ newton' = [pc |-> "loop", i |-> 0, pSat |-> seed, epsOf |-> seed,
                  delta |-> <<0, 0>>, updates |-> 0,
                  regionIdx |-> regionIdx, XgO |-> XgO, what |-> NoMessage]
    /\ UNCHANGED <<muxVars, gasVars, frames, threads, thermal, paramCaches, fluid, last, queryLog>>

\* one pass through the loop body: update, then return if the tolerance is met
NewtonIterate(delta) ==
    /\ newton.pc = "loop"
    /\ LoopContinues(newton.i)
    /\ LET pSatNew == NewtonUpdate(newton.pSat, delta)
       IN /\ InRange(pSatNew)
          /\ IF Converged(delta, newton.pSat, pSatNew)
             THEN /\ newton' = [newton EXCEPT !.pc = "returned", !.pSat = pSatNew,
                                              !.delta = delta, !.updates = @ + 1]
                  /\ last' = Call("gas", "gasSaturationPressure", <<newton.epsOf>>,
                                  "loop", Returned(pSatNew))
             ELSE /\ newton' = [newton EXCEPT !.i = @ + 1, !.pSat = pSatNew,
                                              !.delta = delta, !.updates = @ + 1]
                  /\ UNCHANGED last
    /\ UNCHANGED <<muxVars, gasVars, frames, threads, thermal, paramCaches, fluid, queryLog>>

\* the loop condition fails: OPM_THROW(NumericalIssue, ...)
NewtonGiveUp ==
    /\ newton.pc = "loop"
    /\ ~LoopContinues(newton.i)
    /\ newton' = [newton EXCEPT !.pc = "thrown",
                                !.what = NumericalIssueMessage(newton.regionIdx, newton.XgO)]
    /\ last' = Call("gas", "gasSaturationPressure", <<newton.epsOf>>, "loop",
                    Thrown("NumericalIssue"))
    /\ UNCHANGED <<muxVars, gasVars, frames, threads, thermal, paramCaches, fluid, queryLog>>

(***************************************************************************)
(* WetGasPvt: the property queries as nested calls.  A frame is one        *)
(* activation of a query: its name, its arguments <<regionIdx, pressure,   *)
(* XgO>> and the number of queries it has called so far.                   *)
(***************************************************************************)
\* frames the model follows before it stops
MaxDepth == 5

\* all property queries of the class
AllGasQueryOps == GasQueryOps \cup {"fugacityCoefficientWater"}

\* the queries a non-iterating query calls, in order
Callees(op) ==
    CASE op = "density" -> <<"formationVolumeFactor">>
      [] op = "fugacityCoefficientOil" -> <<"saturatedGasOilMoleFraction">>
      [] op = "saturatedGasOilMoleFraction" -> <<"saturatedGasOilMassFraction">>
      [] op = "saturatedGasOilMassFraction" -> <<"oilVaporizationFactor">>
      [] OTHER -> <<>>

NewFrame(op, args) == [op |-> op, args |-> args, calls |-> 0]

\* the pressure arguments of the two saturatedGasOilMassFraction calls of Newton
\* pass i: pSat and pSat + eps
NewtonPressure(calls) ==
    <<(IF calls % 2 = 0 THEN "pSat" ELSE "pSat + eps"), calls \div 2>>

\* the call the frame makes next, or NoFrame when it makes none
NoFrame == [op |-> "none", args |-> <<>>, calls |-> 0]

NextCallee(fr) ==
    IF fr.op = "fugacityCoefficientWater"
    THEN NewFrame("fugacityCoefficientWater", fr.args)
    ELSE IF fr.op = "gasSaturationPressure"
    THEN IF LoopContinues(fr.calls \div 2)
         THEN NewFrame("saturatedGasOilMassFraction",
                       <<fr.args[1], NewtonPressure(fr.calls), fr.args[3]>>)
         ELSE NoFrame
    ELSE IF fr.calls < Len(Callees(fr.op))
    THEN NewFrame(Callees(fr.op)[fr.calls + 1], fr.args)
    ELSE NoFrame

\* the frame may leave: a non-iterating query after its last call, the Newton
\* loop after a pass that converged or when the loop condition fails
MayLeave(fr, converged) ==
    IF fr.op = "fugacityCoefficientWater" THEN FALSE
    ELSE IF fr.op = "gasSaturationPressure"
    THEN /\ fr.calls % 2 = 0
         /\ \/ fr.calls > 0 /\ converged
            \/ ~LoopContinues(fr.calls \div 2)
    ELSE converged /\ NextCallee(fr) = NoFrame

\* a caller invokes a property query of the finalized object
QueryEnter(op, args) ==
    /\ gasPhase = "finalized"
    /\ frames = <<>>
    /\ frames' = <<NewFrame(op, args)>>
    /\ UNCHANGED <<muxVars, gasVars, newton, threads, thermal, paramCaches, fluid, last, queryLog>>

\* the innermost activation calls its next query
QueryCall ==
    /\ frames # <<>>
    /\ Len(frames) < MaxDepth
    /\ LET top == frames[Len(frames)]
       IN /\ NextCallee(top) # NoFrame
          /\ frames' = Append([frames EXCEPT ![Len(frames)].calls = @ + 1],
                              NextCallee(top))
    /\ UNCHANGED <<muxVars, gasVars, newton, threads, thermal, paramCaches, fluid, last, queryLog>>

\* the innermost activation returns or throws; the outcome of the outermost one
\* goes to the caller
QueryLeave(converged) ==
    /\ frames # <<>>
    /\ LET top == frames[Len(frames)]
       IN /\ MayLeave(top, converged)
          /\ frames' = SubSeq(frames, 1, Len(frames) - 1)
          /\ last' = IF Len(frames) = 1
                     THEN Call("gas", top.op, top.args, gasPhase,
                               GasQueryOutcome(GasState, top.op, top.args, converged))
                     ELSE last
    /\ UNCHANGED <<muxVars, gasVars, newton, threads, thermal, paramCaches, fluid, queryLog>>

(***************************************************************************)
(* The BlackOil fluid system: static members shared by every user.         *)
(* Indices are those of the source (counted from 0); the sequences of the  *)
(* model are counted from 1.                                               *)
(***************************************************************************)
numPhases == 3
waterPhaseIdx == 0
oilPhaseIdx == 1
gasPhaseIdx == 2
numComponents == 3
oilCompIdx == 0
waterCompIdx == 1
gasCompIdx == 2

\* the assertion of a development build failed: the program is aborted
Aborted == [kind |-> "abort", val |-> 0]

\* std::vector::resize: the leading elements are kept, new ones are
\* value-initialised arrays of three zeros
ZeroArray == <<Num(0), Num(0), Num(0)>>

resizeArrays_(fl, numRegions) ==
    [fl EXCEPT !.molarMass_ = Resize(fl.molarMass_, numRegions, ZeroArray),
               !.referenceDensity_ = Resize(fl.referenceDensity_, numRegions, ZeroArray)]

\* an initBegin that leaves the vaporized-oil flag as it was
initBegin_KeepsFlag(fl, numPvtRegions) ==
    resizeArrays_([fl EXCEPT !.enableDissolvedGas_ = TRUE], numPvtRegions)

initBegin(fl, numPvtRegions) ==
    resizeArrays_([fl EXCEPT !.enableDissolvedGas_ = TRUE,
                             !.enableVaporizedOil_ = FALSE],
                  numPvtRegions)

\* BlackOil::initEnd: the molar masses of every region; the gas molar mass is
\* computed from the reference density of region 0 whatever the region
FluidMolarMasses(fl) ==
    [r \in 1..Len(fl.molarMass_) |->
        [c \in 1..numComponents |->
            IF c = waterCompIdx + 1 THEN Frac(18, 1000)
            ELSE IF c = gasCompIdx + 1
            THEN IdealGasMolarMass(fl.referenceDensity_[1][gasPhaseIdx + 1])
            ELSE Frac(175, 1000)]]

\* the reference densities <<rhoOil, rhoWater, rhoGas>> a caller passes for a
\* region: the gas is the denser the higher the region
FluidDensities(regionIdx) == {<<Num(8), Num(10), Num(1 + regionIdx)>>}

\* phase, component and region indices offered to the operations: every valid
\* one and the first ones past the end
PhaseIndices == 0..(numPhases + 1)
CompIndices == 0..(numComponents + 1)
MaxFluidRegions == 2
RegionIndices == 0..MaxFluidRegions

\* the two flags as they are when an operation starts
FlagsName(fl) ==
    IF fl.enableDissolvedGas_
    THEN (IF fl.enableVaporizedOil_ THEN "dissolved+vaporized" ELSE "dissolved")
    ELSE (IF fl.enableVaporizedOil_ THEN "vaporized" ELSE "neither")

FluidStep(op, args, out) ==
    /\ last' = Call("fluid", op, args, FlagsName(fluid), out)
    /\ UNCHANGED <<muxVars, gasVars, newton, frames, threads, thermal, paramCaches, queryLog>>

FluidInitBegin(numPvtRegions) ==
    /\ fluid' = initBegin(fluid, numPvtRegions)
    /\ FluidStep("initBegin", <<numPvtRegions>>, Done)

FluidSetEnableDissolvedGas(yesno) ==
    /\ fluid' = [fluid EXCEPT !.enableDissolvedGas_ = yesno]
    /\ FluidStep("setEnableDissolvedGas", <<yesno>>, Done)

FluidSetEnableVaporizedOil(yesno) ==
    /\ fluid' = [fluid EXCEPT !.enableVaporizedOil_ = yesno]
    /\ FluidStep("setEnableVaporizedOil", <<yesno>>, Done)

FluidEnableDissolvedGas ==
    /\ FluidStep("enableDissolvedGas", <<>>, Returned(<<fluid.enableDissolvedGas_>>))
    /\ UNCHANGED fluid

FluidEnableVaporizedOil ==
    /\ FluidStep("enableVaporizedOil", <<>>, Returned(<<fluid.enableVaporizedOil_>>))
    /\ UNCHANGED fluid

\* referenceDensity_[regionIdx] is taken with the unchecked operator[] of
\* std::vector: past the end the store goes to memory the vector does not own
FluidSetReferenceDensities(rho, regionIdx) ==
    /\ IF regionIdx < Len(fluid.referenceDensity_)
       THEN /\ fluid' = [fluid EXCEPT !.referenceDensity_[regionIdx + 1] =
                            [ph \in 1..numPhases |->
                                IF ph = oilPhaseIdx + 1 THEN rho[1]
                                ELSE IF ph = waterPhaseIdx + 1 THEN rho[2]
                                ELSE rho[3]]]
            /\ FluidStep("setReferenceDensities", <<rho, regionIdx>>, Done)
       ELSE /\ UNCHANGED fluid
            /\ FluidStep("setReferenceDensities", <<rho, regionIdx>>, Undefined)

FluidInitEnd ==
    /\ fluid' = [fluid EXCEPT !.molarMass_ = FluidMolarMasses(fluid)]
    /\ FluidStep("initEnd", <<>>, Done)

FluidReferenceDensity(phaseIdx, regionIdx) ==
    /\ FluidStep("referenceDensity", <<phaseIdx, regionIdx>>,
                 IF regionIdx < Len(fluid.referenceDensity_) /\ phaseIdx < numPhases
                 THEN Returned(fluid.referenceDensity_[regionIdx + 1][phaseIdx + 1])
                 ELSE Undefined)
    /\ UNCHANGED fluid

FluidMolarMass(compIdx, regionIdx) ==
    /\ FluidStep("molarMass", <<compIdx, regionIdx>>,
                 IF regionIdx < Len(fluid.molarMass_) /\ compIdx < numComponents
                 THEN Returned(fluid.molarMass_[regionIdx + 1][compIdx + 1])
                 ELSE Undefined)
    /\ UNCHANGED fluid

\* The operations taking a phase or a component index.  The indices are
\* unsigned, so the lower half of every assertion holds of any argument.

\* phaseName: the name table has numPhases entries
phaseNameTable == <<"water", "oil", "gas">>

phaseName(phaseIdx) ==
    IF ~(phaseIdx < numPhases + 1) THEN {Aborted}
    ELSE IF phaseIdx < Len(phaseNameTable)
    THEN {Returned(<<phaseNameTable[phaseIdx + 1]>>)}
    ELSE {Undefined}

isLiquid(phaseIdx) ==
    IF ~(phaseIdx < numPhases) THEN {Aborted}
    ELSE {Returned(<<phaseIdx # gasPhaseIdx>>)}

\* what a phase-indexed property does once its assertion has passed: the
\* pressure and temperature of the phase are read from the fluid state, which
\* has numPhases of each, then the switch forwards to the PVT object of the
\* phase; an index no case handles reaches the throw behind the switch unless
\* the read past the end of the fluid state went wrong before
ForwardByPhase(op, phaseIdx, regionIdx) ==
    IF phaseIdx = waterPhaseIdx
    THEN {Returned(<<"waterPvt_", op, regionIdx>>)}
    ELSE IF phaseIdx = gasPhaseIdx
    THEN {Returned(<<"gasPvt_", op, regionIdx>>)}
    ELSE IF phaseIdx = oilPhaseIdx
    THEN {Returned(<<"oilPvt_", op, regionIdx>>)}
    ELSE {Thrown("std::logic_error"), Undefined}

density(phaseIdx, regionIdx) ==
    IF ~(phaseIdx <= numPhases) THEN {Aborted}
    ELSE ForwardByPhase("density", phaseIdx, regionIdx)

viscosity(phaseIdx, regionIdx) ==
    IF ~(phaseIdx <= numPhases) THEN {Aborted}
    ELSE ForwardByPhase("viscosity", phaseIdx, regionIdx)

\* fugCoefficientInWater, fugCoefficientInGas, fugCoefficientInOil
fugCoefficientIn(pvt, compIdx, regionIdx) ==
    IF compIdx = gasCompIdx
    THEN {Returned(<<pvt, "fugacityCoefficientGas", regionIdx>>)}
    ELSE IF compIdx = oilCompIdx
    THEN {Returned(<<pvt, "fugacityCoefficientOil", regionIdx>>)}
    ELSE IF compIdx = waterCompIdx
    THEN {Returned(<<pvt, "fugacityCoefficientWater", regionIdx>>)}
    ELSE {Thrown("std::logic_error")}

fugacityCoefficient(phaseIdx, compIdx, regionIdx) ==
    IF ~(phaseIdx <= numPhases) THEN {Aborted}
    ELSE IF ~(compIdx <= numComponents) THEN {Aborted}
    ELSE IF phaseIdx = waterPhaseIdx
    THEN fugCoefficientIn("waterPvt_", compIdx, regionIdx)
    ELSE IF phaseIdx = gasPhaseIdx
    THEN fugCoefficientIn("gasPvt_", compIdx, regionIdx)
    ELSE IF phaseIdx = oilPhaseIdx
    THEN fugCoefficientIn("oilPvt_", compIdx, regionIdx)
    ELSE {Thrown("std::logic_error"), Undefined}

\* the region index of a parameter cache as constructed
CacheRegionIndex == 0

PhaseOps == {"phaseName", "isLiquid", "density", "viscosity"}

PhaseOutcomes(op, phaseIdx) ==
    CASE op = "phaseName" -> phaseName(phaseIdx)
      [] op = "isLiquid" -> isLiquid(phaseIdx)
      [] op = "density" -> density(phaseIdx, CacheRegionIndex)
      [] op = "viscosity" -> viscosity(phaseIdx, CacheRegionIndex)

FluidPhaseQuery(op, phaseIdx) ==
    /\ \E out \in PhaseOutcomes(op, phaseIdx) : FluidStep(op, <<phaseIdx>>, out)
    /\ UNCHANGED fluid

FluidFugacityCoefficient(phaseIdx, compIdx) ==
    /\ \E out \in fugacityCoefficient(phaseIdx, compIdx, CacheRegionIndex) :
           FluidStep("fugacityCoefficient", <<phaseIdx, compIdx>>, out)
    /\ UNCHANGED fluid

\* A property query of WetGasPvt with a region index the caller chose:
\* every per-region member is a std::vector read with the unchecked
\* operator[], so an index past the end reads memory the vector does not own.
\* fugacityCoefficientGas names none of its parameters and reads no member:
\* it returns 1.0 for every region index.
GasQueryAt(st, op, args, converged) ==
    IF op = "fugacityCoefficientGas" \/ args[1] < Len(st.gasMu)
    THEN GasQueryOutcome(st, op, args, converged)
    ELSE Undefined

FluidGasQuery(op, args) ==
    /\ gasPhase = "finalized"
    /\ last' = Call("gas", op, args, gasPhase, GasQueryAt(GasState, op, args, TRUE))
    /\ UNCHANGED <<muxVars, gasVars, newton, frames, threads, thermal, paramCaches, fluid, queryLog>>

(***************************************************************************)
(* BlackOil::ParameterCache                                                *)
(***************************************************************************)
MaxCaches == 3
MaxCacheRegion == 3

\* ParameterCache(int regionIdx = 0): the parameter is unnamed and the body
\* assigns the literal 0
ParameterCache(regionIdx) == [regionIdx_ |-> 0]

\* unsigned regionIndex() const
regionIndex(cache) == cache.regionIdx_

\* void setRegionIndex(unsigned val)
setRegionIndex(cache, val) == [cache EXCEPT !.regionIdx_ = val]

CacheStep(op, args, pre, out) ==
    /\ last' = Call("cache", op, args, pre, out)
    /\ UNCHANGED <<muxVars, gasVars, newton, frames, threads, fluid, thermal, queryLog>>

CacheConstruct(regionIdx) ==
    /\ Len(paramCaches) < MaxCaches
    /\ paramCaches' = Append(paramCaches, ParameterCache(regionIdx))
    /\ CacheStep("ParameterCache", <<Len(paramCaches) + 1, regionIdx>>, "none", Done)

CacheSetRegionIndex(c, val) ==
    /\ c \in 1..Len(paramCaches)
    /\ paramCaches' = [paramCaches EXCEPT ![c] = setRegionIndex(@, val)]
    /\ CacheStep("setRegionIndex", <<c, val>>, "constructed", Done)

CacheRegionIndexQuery(c) ==
    /\ c \in 1..Len(paramCaches)
    /\ UNCHANGED paramCaches
    /\ CacheStep("regionIndex", <<c>>, "constructed", Returned(regionIndex(paramCaches[c])))

(***************************************************************************)
(* EclThermalLawManager                                                    *)
(***************************************************************************)
MaxElems == 2
\* the cells of the Cartesian grid: one more than the active elements
NumCartesian == MaxElems + 1
NumSatTables == 2
MaxKeywords == 2
\* the calls of initParamsForElements on one manager
MaxInits == 2

\* the keywords of grid properties the manager asks the deck for
FieldKeywords == {"HEATCR", "THCONR", "THCONSF", "THCROCK", "THCOIL", "THCGAS", "THCWATER"}

\* the manager as its constructor leaves it; inits counts the calls of
\* initParamsForElements and is no member of the class
EclThermalLawManager ==
    [solidEnergyApproach_ |-> "undefinedApproach",
     thermalConductivityApproach_ |-> "undefinedApproach",
     elemToSatnumIdx_ |-> <<>>,
     solidEnergyLawParams_ |-> <<>>,
     thermalConductionLawParams_ |-> <<>>,
     inits |-> 0]

\* fp.has_double(keyword), tableManager.hasTables("SPECROCK")
has_double(ecl, kw) == kw \in ecl.props
hasTables(ecl, kw) == kw = "SPECROCK" /\ ecl.specrock

\* fp.get_global_double(keyword): one value per cell of the Cartesian grid;
\* the value of cell c (0-based) is written <<keyword, c>>
get_global_double(ecl, kw) == [c \in 1..NumCartesian |-> <<kw, c - 1>>]

\* fp.get_global_int("SATNUM"): Fortran-style indices, starting at 1
get_global_int(ecl, kw) == [c \in 1..NumCartesian |-> ((c - 1) % NumSatTables) + 1]

\* the double 0.0
ZeroValue == <<"0.0", 0>>

\* data.empty() ? 0.0 : data[idx], data fetched only if the keyword is there
ValueOrZero(ecl, kw, idx) ==
    IF has_double(ecl, kw) THEN get_global_double(ecl, kw)[idx + 1] ELSE ZeroValue

\* a default-constructed element of one of the two parameter vectors
DefaultParams == [approach |-> "undefinedApproach", values |-> <<>>]

\* void initHeatcr_(eclState, compressedToCartesianElemIdx)
initHeatcr_(th, ecl, c2c) ==
    LET heatcrData == get_global_double(ecl, "HEATCR")
        heatcrtData == get_global_double(ecl, "HEATCRT")
        numElems == Len(c2c)
    IN [th EXCEPT !.solidEnergyApproach_ = "heatcrApproach",
                  !.solidEnergyLawParams_ =
                      [e \in 1..numElems |->
                          LET elemIdx == e - 1
                          IN [approach |-> "heatcrApproach",
                              values |-> <<heatcrData[elemIdx + 1],
                                           heatcrtData[elemIdx + 1]>>]]]

\* void initSpecrock_(eclState, compressedToCartesianElemIdx)
initSpecrock_(th, ecl, c2c) ==
    LET satnumData == get_global_int(ecl, "SATNUM")
    IN [th EXCEPT !.solidEnergyApproach_ = "specrockApproach",
                  !.elemToSatnumIdx_ =
                      [e \in 1..Len(c2c) |->
                          LET cartesianElemIdx == c2c[e]
                          IN satnumData[cartesianElemIdx + 1] - 1],
                  !.solidEnergyLawParams_ =
                      [t \in 1..NumSatTables |->
                          [approach |-> "specrockApproach",
                           values |-> << <<"SPECROCK", t - 1>> >>]]]

\* void initNullRockEnergy_(): resize(1) keeps an element 0 that is there
initNullRockEnergy_(th) ==
    [th EXCEPT !.solidEnergyApproach_ = "nullApproach",
               !.solidEnergyLawParams_ = Resize(@, 1, DefaultParams)]

\* void initThconr_(eclState, compressedToCartesianElemIdx)
initThconr_(th, ecl, c2c) ==
    [th EXCEPT !.thermalConductivityApproach_ = "thconrApproach",
               !.thermalConductionLawParams_ =
                   [e \in 1..Len(c2c) |->
                       LET cartElemIdx == c2c[e]
                       IN [approach |-> "thconrApproach",
                           values |-> <<ValueOrZero(ecl, "THCONR", cartElemIdx),
                                        ValueOrZero(ecl, "THCONSF", cartElemIdx)>>]]]

\* what fp.get_global_double(keyword) does for a keyword the deck does not
\* hold: the field properties throw, or they hand out an array of one value
\* per Cartesian cell
AbsentFetches == {"throws", "array"}

\* void initThc_(eclState, compressedToCartesianElemIdx): the approach is
\* assigned first; THCWATER is fetched whether or not the deck holds it,
\* "std::vector<double> thcwaterData = fp.get_global_double("THCWATER");",
\* and a fetch that throws leaves the function before the resize
initThc_(th, ecl, c2c, absent) ==
    LET s0 == [th EXCEPT !.thermalConductivityApproach_ = "thcApproach"]
        thcwaterData == get_global_double(ecl, "THCWATER")
        poroData == get_global_double(ecl, "PORO")
    IN IF ~has_double(ecl, "THCWATER") /\ absent = "throws"
       THEN [st |-> s0, out |-> Thrown("get_global_double")]
       ELSE [st |-> [s0 EXCEPT !.thermalConductionLawParams_ =
                      [e \in 1..Len(c2c) |->
                          LET cartElemIdx == c2c[e]
                          IN [approach |-> "thcApproach",
                              values |-> <<poroData[cartElemIdx + 1],
                                           ValueOrZero(ecl, "THCROCK", cartElemIdx),
                                           ValueOrZero(ecl, "THCOIL", cartElemIdx),
                                           ValueOrZero(ecl, "THCGAS", cartElemIdx),
                                           thcwaterData[cartElemIdx + 1]>>]]],
             out |-> Done]

\* void initNullCond_()
initNullCond_(th) ==
    [th EXCEPT !.thermalConductivityApproach_ = "nullApproach",
               !.thermalConductionLawParams_ = Resize(@, 1, DefaultParams)]

\* void initParamsForElements(eclState, compressedToCartesianElemIdx): the
\* exception of initThc_ leaves it with the solid energy part done
initParamsForElements(th, ecl, c2c, absent) ==
    LET has_heatcr == has_double(ecl, "HEATCR")
        has_thconr == has_double(ecl, "THCONR")
        has_thc == \/ has_double(ecl, "THCROCK")
                   \/ has_double(ecl, "THCOIL")
                   \/ has_double(ecl, "THCGAS")
                   \/ has_double(ecl, "THCWATER")
        solid == IF has_heatcr THEN initHeatcr_(th, ecl, c2c)
                 ELSE IF hasTables(ecl, "SPECROCK") THEN initSpecrock_(th, ecl, c2c)
                 ELSE initNullRockEnergy_(th)
    IN IF has_thconr THEN [st |-> initThconr_(solid, ecl, c2c), out |-> Done]
       ELSE IF has_thc THEN initThc_(solid, ecl, c2c, absent)
       ELSE [st |-> initNullCond_(solid), out |-> Done]

\* const SolidEnergyLawParams& solidEnergyLawParams(unsigned elemIdx) const
solidEnergyLawParams(th, elemIdx) ==
    CASE th.solidEnergyApproach_ = "heatcrApproach" ->
            IF ~(elemIdx < Len(th.solidEnergyLawParams_)) THEN Aborted
            ELSE Returned(th.solidEnergyLawParams_[elemIdx + 1])
      [] th.solidEnergyApproach_ = "specrockApproach" ->
            IF ~(elemIdx < Len(th.elemToSatnumIdx_)) THEN Aborted
            ELSE LET satnumIdx == th.elemToSatnumIdx_[elemIdx + 1]
                 IN IF ~(satnumIdx < Len(th.solidEnergyLawParams_)) THEN Aborted
                    ELSE Returned(th.solidEnergyLawParams_[satnumIdx + 1])
      [] th.solidEnergyApproach_ = "nullApproach" ->
            Returned(th.solidEnergyLawParams_[1])
      [] OTHER -> Thrown("std::runtime_error")

\* const ThermalConductionLawParams& thermalConductionLawParams(unsigned elemIdx) const
thermalConductionLawParams(th, elemIdx) ==
    CASE th.thermalConductivityApproach_ \in {"thconrApproach", "thcApproach"} ->
            IF ~(elemIdx < Len(th.thermalConductionLawParams_)) THEN Aborted
            ELSE Returned(th.thermalConductionLawParams_[elemIdx + 1])
      [] th.thermalConductivityApproach_ = "nullApproach" ->
            Returned(th.thermalConductionLawParams_[1])
      [] OTHER -> Thrown("std::runtime_error")

\* the decks handed to the manager: at most MaxKeywords of the keywords that
\* the code asks for with has_double; HEATCRT, PORO and SATNUM are in every deck
EclStates ==
    {ecl \in [props : SUBSET FieldKeywords, specrock : BOOLEAN] :
        Cardinality(ecl.props) <= MaxKeywords}

\* compressed element index -> Cartesian index of the active cells
RECURSIVE Ascending(_)
Ascending(q) == Len(q) < 2 \/ (q[1] < q[2] /\ Ascending(Tail(q)))

ElemMaps == {q \in [1..MaxElems -> 0..(NumCartesian - 1)] : Ascending(q)}

ThermalStep(op, args, out) ==
    /\ last' = Call("thermal", op, args, thermal.solidEnergyApproach_, out)
    /\ UNCHANGED <<muxVars, gasVars, newton, frames, threads, fluid, paramCaches, queryLog>>

ThermalInitParamsForElements(ecl, c2c, absent) ==
    LET res == initParamsForElements(thermal, ecl, c2c, absent)
    IN /\ thermal.inits < MaxInits
       /\ thermal' = [res.st EXCEPT !.inits = @ + 1]
       /\ ThermalStep("initParamsForElements", <<ecl, c2c>>, res.out)

ThermalSolidEnergyLawParams(elemIdx) ==
    /\ UNCHANGED thermal
    /\ ThermalStep("solidEnergyLawParams", <<elemIdx>>, solidEnergyLawParams(thermal, elemIdx))

ThermalThermalConductionLawParams(elemIdx) ==
    /\ UNCHANGED thermal
    /\ ThermalStep("thermalConductionLawParams", <<elemIdx>>,
                   thermalConductionLawParams(thermal, elemIdx))

(***************************************************************************)
(* Values of the variables a specification does not use.                   *)
(***************************************************************************)
GasIdle ==
    /\ deck = <<>>
    /\ gasPhase = "constructed"
    /\ setup = 0
    /\ oilPvt_ = 0
    /\ gasReferenceDensity_ = <<>>
    /\ oilReferenceDensity_ = <<>>
    /\ gasMolarMass_ = <<>>
    /\ oilMolarMass_ = <<>>
    /\ inverseGasB_ = <<>>
    /\ gasMu_ = <<>>
    /\ inverseGasBMu_ = <<>>
    /\ oilVaporizationFactorTable_ = <<>>
    /\ saturationPressureSpline_ = <<>>

NewtonIdle ==
    /\ thermal = EclThermalLawManager
    /\ paramCaches = <<>>
    /\ newton = [pc |-> "idle"]
    /\ frames = <<>>
    /\ threads = <<>>
    /\ fluid = FluidStatic

(***************************************************************************)
(* SpecMux: one OilPvtMultiplexer from its construction to its destruction *)
(***************************************************************************)
InitMux ==
    /\ MuxInit
    /\ GasIdle
    /\ NewtonIdle
    /\ last = NoCall
    /\ queryLog = {}

NextMux ==
    \/ \E appr \in OilPvtApproach : MuxSetApproach(appr)
    \/ \E kws \in SUBSET DeckKeywords : MuxInitFromDeck(kws)
    \/ MuxInitEnd
    \/ \E op \in MuxQueryOps : \E args \in MuxArgs(op) : MuxQuery(op, args)
    \/ MuxDestroy

SpecMux == InitMux /\ [][NextMux]_vars

(***************************************************************************)
(* Claims on the multiplexer, checked under SpecMux.                       *)
(***************************************************************************)

\* C1: once a setApproach has succeeded (the stored approach is no longer
\* NoOilPvt), no later step changes the stored approach tag or the owned
\* implementation pointer: a further setApproach is rejected or is a no-op.
C1_SetApproachOnlyOnce ==
    [][approach_ # NoOilPvt =>
          (approach_' = approach_ /\ realOilPvt_' = realOilPvt_)]_vars

\* C2: every operation routed through the switch on approach_ (initEnd, the
\* eight property methods, and initFromDeck on a deck with none of PVCDO, PVDO,
\* PVTO) that runs while the stored approach is NoOilPvt throws
\* std::logic_error and returns no value.
C2_UnsetApproachThrows ==
    ( /\ last.obj = "mux"
      /\ last.op \in MuxDispatchedOps
      /\ last.pre = NoOilPvt
      /\ (last.op = "initFromDeck" => last.args[1] \cap DeckKeywords = {}) )
    => last.out = Thrown("std::logic_error")

\* a property query has run on a multiplexer whose approach was never set
C2_Witness ==
    /\ last.obj = "mux"
    /\ last.op = "saturationPressure"
    /\ last.pre = NoOilPvt
    /\ last.out.kind = "throw"

\* C23: setApproach(NoOilPvt) throws std::logic_error and changes nothing: the
\* approach tag, the implementation pointer and the set of allocated
\* implementation objects are those of before the call.
C23_NoOilPvtThrowsAndKeepsState ==
    [][(/\ last'.obj = "mux"
        /\ last'.op = "setApproach"
        /\ last'.args = <<NoOilPvt>>)
       => /\ last'.out = Thrown("std::logic_error")
          /\ approach_' = approach_
          /\ realOilPvt_' = realOilPvt_
          /\ heap' = heap
          /\ muxAlive' = muxAlive]_vars

\* setApproach(NoOilPvt) was called on a multiplexer that has an approach
C23_Witness ==
    /\ last.obj = "mux"
    /\ last.op = "setApproach"
    /\ last.args = <<NoOilPvt>>
    /\ last.out = Thrown("std::logic_error")
    /\ approach_ # NoOilPvt
    /\ realOilPvt_ \in 1..Len(heap)


\* C3: once the multiplexer has been destroyed, every implementation object
\* that was allocated during its life has been released exactly once.
C3_EveryImplReleasedOnce ==
    /\ \A i \in 1..Len(heap) : heap[i].frees <= 1
    /\ ~muxAlive => \A i \in 1..Len(heap) : heap[i].frees = 1

\* C4: while the approach is set, realOilPvt_ points to a live object of exactly
\* the class the approach names, and every property query answered with a set
\* approach is the answer of that owned implementation for the same arguments,
\* never the fallback value of the trailing "return 0".
C4_DispatchReachesOwnedImpl ==
    /\ (muxAlive /\ approach_ # NoOilPvt) =>
          /\ realOilPvt_ \in 1..Len(heap)
          /\ heap[realOilPvt_].kind = approach_
          /\ heap[realOilPvt_].frees = 0
    /\ (last.obj = "mux" /\ last.op \in MuxQueryOps /\ last.pre # NoOilPvt) =>
          /\ last.out = ImplCall(last.pre, last.op, last.args)
          /\ last.out # FallbackValue

\* a dead-oil multiplexer that replaced an earlier approach has answered a query
C4_Witness ==
    /\ last.obj = "mux"
    /\ last.op = "density"
    /\ last.pre = DeadOilPvt
    /\ Len(heap) = 2
    /\ last.out = Returned(<<DeadOilPvt, "density", last.args>>)

(***************************************************************************)
(* SpecDeck: a fresh WetGasPvt is initialized from a PVTG deck and then    *)
(* finalized, as BlackOil::initFromDeck does.                              *)
(***************************************************************************)
GasFresh ==
    /\ gasPhase = "constructed"
    /\ setup = 0
    /\ oilPvt_ = 0
    /\ gasReferenceDensity_ = <<>>
    /\ oilReferenceDensity_ = <<>>
    /\ gasMolarMass_ = <<>>
    /\ oilMolarMass_ = <<>>
    /\ inverseGasB_ = <<>>
    /\ gasMu_ = <<>>
    /\ inverseGasBMu_ = <<>>
    /\ oilVaporizationFactorTable_ = <<>>
    /\ saturationPressureSpline_ = <<>>

InitDeck ==
    /\ MuxInit
    /\ deck \in Decks
    /\ GasFresh
    /\ NewtonIdle
    /\ last = NoCall
    /\ queryLog = {}

NextDeck ==
    \/ GasInitFromDeck
    \/ GasInitEnd

SpecDeck == InitDeck /\ [][NextDeck]_vars

(***************************************************************************)
(* Claims on the deck extraction and the gap-fill pass, under SpecDeck.    *)
(***************************************************************************)
\* outer row i of the table has fewer than two inner rows and so has every later row
NoLaterMaster(pvtg, i) ==
    /\ Len(getInnerTable(pvtg, i)) < 2
    /\ \A j \in (i + 1)..numRows(pvtg) : Len(getInnerTable(pvtg, j)) < 2

LacksMaster(pvtg) == \E i \in 1..numRows(pvtg) : NoLaterMaster(pvtg, i)

\* C7: when, in the first region that has one, an outer position with fewer than
\* two inner samples has no later outer position with two or more, initFromDeck
\* ends with std::runtime_error raised in that region, no point is synthesized
\* for such a row, and the finalize step is never performed (no inverse(B*mu)
\* table is built, the companion pointer stays unset).
C7_NoMasterIsFatal ==
    gasPhase # "constructed" =>
      \A r \in 1..Len(deck) :
        (LacksMaster(deck[r]) /\ \A q \in 1..(r - 1) : ~LacksMaster(deck[q])) =>
          /\ gasPhase = "failed"
          /\ last.op = "initFromDeck"
          /\ last.out = Thrown("std::runtime_error")
          /\ last.args = <<r>>
          /\ \A i \in 1..numRows(deck[r]) :
                NoLaterMaster(deck[r], i) =>
                  /\ numY(inverseGasB_[r], i) = Len(getInnerTable(deck[r], i))
                  /\ numY(gasMu_[r], i) = Len(getInnerTable(deck[r], i))
          /\ \A q \in 1..Len(inverseGasBMu_) : numX(inverseGasBMu_[q]) = 0
          /\ oilPvt_ = 0

\* initFromDeck failed on a row without master after it had extended an earlier
\* row of the same region
C7_Witness ==
    /\ gasPhase = "failed"
    /\ last.out = Thrown("std::runtime_error")
    /\ \E i \in 1..numRows(deck[last.args[1]]) :
          numY(inverseGasB_[last.args[1]], i) > Len(getInnerTable(deck[last.args[1]], i))

\* C8: for every region whose gap-fill pass completed without error, every outer
\* position of inverseGasB_ and of gasMu_ holds at least two inner samples (the
\* decks have at least one inner row per outer row).
C8_TwoSamplesPerRow ==
    \A r \in 1..Len(inverseGasB_) :
      ( \/ gasPhase \in {"deckDone", "finalized"}
        \/ (gasPhase = "failed" /\ last.op = "initFromDeck" /\ r < last.args[1]) )
      => /\ numX(inverseGasB_[r]) = numRows(deck[r])
         /\ numX(gasMu_[r]) = numRows(deck[r])
         /\ \A x \in 1..numRows(deck[r]) :
               numY(inverseGasB_[r], x) >= 2 /\ numY(gasMu_[r], x) >= 2

\* the pass completed on a deck with an outer row of a single inner sample
C8_Witness ==
    /\ gasPhase = "deckDone"
    /\ \E r \in 1..Len(deck) : \E i \in 1..numRows(deck[r]) :
          /\ Len(getInnerTable(deck[r], i)) = 1
          /\ numY(gasMu_[r], i) >= 2

\* the smallest index j > i whose inner table, as the deck supplies it, has two
\* or more rows
FirstSuppliedMaster(pvtg, i) ==
    CHOOSE j \in (i + 1)..numRows(pvtg) :
        /\ Len(getInnerTable(pvtg, j)) >= 2
        /\ \A q \in (i + 1)..(j - 1) : Len(getInnerTable(pvtg, q)) < 2

\* the regions whose gap-fill pass has completed
RegionPassed(r) ==
    \/ gasPhase \in {"deckDone", "finalized"}
    \/ (gasPhase = "failed" /\ last.op = "initFromDeck" /\ r < last.args[1])

\* C20: every outer position i the deck supplies with fewer than two inner
\* samples is extended from the outer position with the smallest index j > i
\* whose inner table as supplied has two or more samples: the samples stored
\* after the supplied one are those computed from row j, for inverseGasB_ and
\* for gasMu_; no row at an index <= i and no row completed by the pass serves.
C20_MasterIsFirstSuppliedRow ==
    \A r \in 1..Len(inverseGasB_) :
      RegionPassed(r) =>
        \A i \in 1..numRows(deck[r]) :
          Len(getInnerTable(deck[r], i)) < 2 =>
            /\ \E q \in (i + 1)..numRows(deck[r]) : Len(getInnerTable(deck[r], q)) >= 2
            /\ LET j == FirstSuppliedMaster(deck[r], i)
                   cur == getInnerTable(deck[r], i)
                   mt == getInnerTable(deck[r], j)
               IN
               /\ j > i
               /\ numY(inverseGasB_[r], i) = Len(cur) + Len(mt) - 1
               /\ numY(gasMu_[r], i) = Len(cur) + Len(mt) - 1
               /\ \A k \in 2..Len(mt) :
                     /\ inverseGasB_[r].samples[i][Len(cur) + k - 1] =
                           NewInvBSample(cur, mt, k)
                     /\ gasMu_[r].samples[i][Len(cur) + k - 1] =
                           NewMuSample(cur, mt, k)

\* the pass completed on a table whose deficient row i follows a row supplied
\* complete and precedes another deficient row, so that its master is neither
\* the first complete row of the table nor the row next to i
C20_Witness ==
    /\ gasPhase = "deckDone"
    /\ \E r \in 1..Len(deck) : \E i \in 2..(numRows(deck[r]) - 2) :
          /\ Len(getInnerTable(deck[r], i)) = 1
          /\ Len(getInnerTable(deck[r], i + 1)) = 1
          /\ \E q \in 1..(i - 1) : Len(getInnerTable(deck[r], q)) >= 2
          /\ numY(inverseGasB_[r], i) >= 2
          /\ numY(inverseGasB_[r], i + 1) >= 2

\* C21: a row the deck supplies with one sample and whose master row has m
\* samples holds, after the pass, its own sample (Rv, 1/Bg) resp. (Rv, mu) as
\* supplied followed by exactly m - 1 synthesized samples; the k-th of them
\* has Rv = cur.Rv[0]*master.Rv[k]/master.Rv[0], Bg = cur.Bg[0]*master.Bg[k]/
\* master.Bg[0] and mu = cur.mu[0]*master.mu[k]/master.mu[0], stored as
\* (Rv, 1/Bg) in inverseGasB_ and as (Rv, mu) in gasMu_.  The equations are
\* stated cross-multiplied.
C21_SynthesizedSamples ==
    \A r \in 1..Len(inverseGasB_) :
      RegionPassed(r) =>
        \A i \in 1..numRows(deck[r]) :
          Len(getInnerTable(deck[r], i)) = 1 =>
            /\ \E q \in (i + 1)..numRows(deck[r]) : Len(getInnerTable(deck[r], q)) >= 2
            /\ LET cur == getInnerTable(deck[r], i)[1]
                   mt == getInnerTable(deck[r], FirstSuppliedMaster(deck[r], i))
                   b == inverseGasB_[r].samples[i]
                   mu == gasMu_[r].samples[i]
               IN
               /\ Len(b) = 1 + (Len(mt) - 1)
               /\ Len(mu) = 1 + (Len(mt) - 1)
               /\ b[1] = <<Num(cur.Rv), Frac(1, cur.Bg)>>
               /\ mu[1] = <<Num(cur.Rv), Num(cur.mug)>>
               /\ \A k \in 1..(Len(mt) - 1) :
                     /\ FMul(b[1 + k][1], Num(mt[1].Rv)) = Num(cur.Rv * mt[k + 1].Rv)
                     /\ FMul(b[1 + k][2], Num(cur.Bg * mt[k + 1].Bg)) = Num(mt[1].Bg)
                     /\ FMul(mu[1 + k][1], Num(mt[1].Rv)) = Num(cur.Rv * mt[k + 1].Rv)
                     /\ FMul(mu[1 + k][2], Num(mt[1].mug)) = Num(cur.mug * mt[k + 1].mug)

\* the pass completed and a row supplied with one sample was extended from a
\* master row of three samples: it holds three samples, and its third one is
\* not at the saturated Rv, is not the row's first sample scaled by the ratio
\* of the master's third to the master's second sample, and is not the row's
\* second sample scaled by the ratio of the master's third to its first sample
C21_Witness ==
    /\ gasPhase = "deckDone"
    /\ \E r \in 1..Len(deck) : \E i \in 1..numRows(deck[r]) :
          /\ Len(getInnerTable(deck[r], i)) = 1
          /\ \E q \in (i + 1)..numRows(deck[r]) : Len(getInnerTable(deck[r], q)) >= 2
          /\ LET cur == getInnerTable(deck[r], i)[1]
                 mt == getInnerTable(deck[r], FirstSuppliedMaster(deck[r], i))
                 b == inverseGasB_[r].samples[i]
                 mu == gasMu_[r].samples[i]
             IN /\ Len(mt) = 3
                /\ Len(mu) = 3
                /\ Len(b) = 3
                /\ mu[3][1] # Num(cur.Rv)
                /\ FMul(mu[3][2], Num(mt[2].mug)) # Num(cur.mug * mt[3].mug)
                /\ FMul(mu[3][1], Num(mt[2].Rv)) # Num(cur.Rv * mt[3].Rv)
                /\ FMul(mu[3][2], Num(mt[1].mug)) # FMul(mu[2][2], Num(mt[3].mug))
                /\ FMul(b[3][2], Num(cur.Bg * mt[3].Bg)) # Num(mt[2].Bg)

\* gasMu and invGasB have the same outer positions and, at each of them, the
\* same number of samples at the same inner coordinates
SameGrid(gasMu, invGasB) ==
    /\ numX(gasMu) = numX(invGasB)
    /\ \A i \in 1..numX(gasMu) :
          /\ xAt(gasMu, i) = xAt(invGasB, i)
          /\ numY(gasMu, i) = numY(invGasB, i)
          /\ \A k \in 1..numY(gasMu, i) : yAt(gasMu, i, k) = yAt(invGasB, i, k)

\* C25: after the extraction and the gap-fill of initFromDeck, gasMu_ and
\* inverseGasB_ of every region have the same outer positions and at each
\* outer position the same number of samples at the same inner coordinates;
\* the assertions of initEnd on numX and numY therefore hold and initEnd does
\* not end at one of them.
C25_TablesShareTheirGrid ==
    /\ gasPhase \in {"deckDone", "finalized"} =>
          /\ Len(gasMu_) = Len(deck)
          /\ Len(inverseGasB_) = Len(deck)
          /\ \A r \in 1..Len(deck) :
                /\ SameGrid(gasMu_[r], inverseGasB_[r])
                /\ numX(gasMu_[r]) = numRows(deck[r])
    /\ (last.obj = "gas" /\ last.op = "initEnd") => last.out = Done

\* a deck with a deficient row was read and initEnd has passed its assertions
C25_Witness ==
    /\ gasPhase = "finalized"
    /\ last.obj = "gas"
    /\ last.op = "initEnd"
    /\ \E r \in 1..Len(deck) : \E i \in 1..numRows(deck[r]) :
          /\ Len(getInnerTable(deck[r], i)) = 1
          /\ numY(gasMu_[r], i) = 2
          /\ numY(inverseGasB_[r], i) = 2
          /\ yAt(gasMu_[r], i, 2) = yAt(inverseGasB_[r], i, 2)
          /\ numX(inverseGasBMu_[r]) = numRows(deck[r])

AllRowsComplete(pvtg) == \A i \in 1..numRows(pvtg) : Len(getInnerTable(pvtg, i)) >= 2

\* C9: the extension pass appends nothing to a table set whose rows all hold two
\* or more samples: on a deck that is complete as supplied the tables are the
\* extracted ones, and the pass applied to its own output returns it unchanged.
C9_GapFillIdempotent ==
    gasPhase = "deckDone" =>
      \A r \in 1..Len(deck) :
        /\ AllRowsComplete(deck[r]) =>
              LET ex == ExtractRows(deck[r], EmptyTable2D, EmptyTable2D, 1)
              IN inverseGasB_[r] = ex.invGasB /\ gasMu_[r] = ex.gasMu
        /\ GapFillPass(deck[r], inverseGasB_[r], gasMu_[r]) =
              [invGasB |-> inverseGasB_[r], gasMu |-> gasMu_[r], out |-> Done]

\* a two-region deck, the first region complete as supplied, the second extended
C9_Witness ==
    /\ gasPhase = "deckDone"
    /\ Len(deck) = 2
    /\ AllRowsComplete(deck[1])
    /\ ~AllRowsComplete(deck[2])


(***************************************************************************)
(* SpecGas: one WetGasPvt with its companion multiplexer, set up from a    *)
(* deck or through the setX methods in the order of                        *)
(* BlackOilFluidSystem::initFromDeck (gas tables, oil tables, gas initEnd, *)
(* oil initEnd), then queried.                                             *)
(***************************************************************************)
\* single-region decks of two pressure nodes; <<>> is the driver without a deck
GasDecks == {dk \in Decks : Len(dk) = 1 /\ numRows(dk[1]) = 2}

\* the regions of the setX path
MaxRegions == 2

InitGas ==
    /\ MuxInit
    /\ GasFresh
    /\ deck \in GasDecks \cup {<<>>}
    /\ NewtonIdle
    /\ last = NoCall
    /\ queryLog = {}

\* oilPvt_->initFromDeck(deck, eclState) of the fluid system
FluidOilInitFromDeck(kws) ==
    /\ gasPhase \in {"deckDone", "tablesSet"}
    /\ approach_ = NoOilPvt
    /\ Len(heap) = 0
    /\ MuxInitFromDeck(kws)

\* gasPvt_->initEnd(oilPvt_.get()), after the oil tables were read
FluidGasInitEnd ==
    /\ approach_ # NoOilPvt
    /\ GasInitEnd

\* oilPvt_->initEnd()
FluidOilInitEnd ==
    /\ gasPhase = "finalized"
    /\ realOilPvt_ \in 1..Len(heap)
    /\ ~heap[realOilPvt_].ended
    /\ MuxInitEnd

\* the fluid system queries the oil phase of the region the deck describes
FluidOilQuery(op, args) ==
    /\ gasPhase = "finalized"
    /\ CompanionReady
    /\ args[1] = 0
    /\ MuxQuery(op, args)

NextGas ==
    \/ GasInitFromDeck
    \/ \E n \in 1..MaxRegions : GasSetNumRegions(n)
    \/ GasSetReferenceDensities
    \/ GasSetMolarMasses
    \/ \E pts \in RvSamplePoints : GasSetSaturatedGasOilVaporizationFactor(pts)
    \/ \E pts \in BgSamplePoints : \E failAt \in 0..nRv :
           GasSetSaturatedGasFormationVolumeFactor(pts, failAt)
    \/ \E pts \in MugSamplePoints : GasSetSaturatedGasViscosity(pts)
    \/ \E r \in DirectRegions : \E invBg \in ManualInvBgTables :
           GasSetInverseGasFormationVolumeFactor(r, invBg)
    \/ \E r \in DirectRegions : \E mug \in ManualMugTables : GasSetGasViscosity(r, mug)
    \/ \E kws \in SUBSET DeckKeywords : FluidOilInitFromDeck(kws)
    \/ FluidGasInitEnd
    \/ FluidOilInitEnd
    \/ \E op \in GasQueryOps : \E args \in GasArgs(op, Len(gasMu_)) :
           \E converged \in BOOLEAN : GasQuery(op, args, converged)
    \/ \E op \in MuxQueryOps : \E args \in MuxArgs(op) : FluidOilQuery(op, args)

SpecGas == InitGas /\ [][NextGas]_vars

(***************************************************************************)
(* Claims on the property queries, checked under SpecGas.                  *)
(***************************************************************************)

\* C5: a step that is a property query of WetGasPvt (viscosity, density,
\* formationVolumeFactor, fugacityCoefficientGas, fugacityCoefficientOil,
\* oilVaporizationFactor, gasSaturationPressure, saturatedGasOilMassFraction,
\* saturatedGasOilMoleFraction) or of OilPvtMultiplexer leaves the stored state
\* as it was: reference densities, molar masses, the 1-D and 2-D tables, the
\* saturation pressure splines, the companion pointer, the approach tag, the
\* implementation pointer and the implementation objects.
C5_QueriesLeaveStateUnchanged ==
    [][(\/ last'.obj = "gas" /\ last'.op \in GasQueryOps
        \/ last'.obj = "mux" /\ last'.op \in MuxQueryOps)
       => UNCHANGED <<gasStored, approach_, realOilPvt_, heap>>]_vars

\* a viscosity query was answered by a finalized object
C5_Witness ==
    /\ last.obj = "gas"
    /\ last.op = "viscosity"
    /\ last.out.kind = "value"
    /\ Len(inverseGasBMu_) > 0
    /\ numX(inverseGasBMu_[1]) > 0

\* the queries C6 names
FinalizedOnlyOps == {"viscosity", "density", "formationVolumeFactor",
                     "fugacityCoefficientOil", "gasSaturationPressure"}

\* C6: no execution of viscosity, density, formationVolumeFactor,
\* fugacityCoefficientOil or gasSaturationPressure happens on an object whose
\* initEnd has not completed: a query issued by the fluid system finds the
\* object finalized, and so does every execution of one of these queries inside
\* a construction step.
C6_NoQueryBeforeInitEnd ==
    /\ (last.obj = "gas" /\ last.op \in FinalizedOnlyOps) => last.pre = "finalized"
    /\ \A q \in queryLog : q.op \in FinalizedOnlyOps => q.finalized


(***************************************************************************)
(* SpecNewton: one call of gasSaturationPressure.                          *)
(***************************************************************************)
InitNewton ==
    /\ MuxInit
    /\ GasIdle
    /\ newton = [pc |-> "idle"]
    /\ frames = <<>>
    /\ threads = <<>>
    /\ fluid = FluidStatic
    /\ thermal = EclThermalLawManager
    /\ paramCaches = <<>>
    /\ last = NoCall
    /\ queryLog = {}

NextNewton ==
    \/ \E regionIdx \in Regions : \E XgO \in GasXgOs : \E seed \in Seeds :
           NewtonStart(regionIdx, XgO, seed)
    \/ \E delta \in Deltas : NewtonIterate(delta)
    \/ NewtonGiveUp

SpecNewton == InitNewton /\ [][NextNewton]_vars

\* C10: gasSaturationPressure makes at most 20 updates of pSat.  While it is in
\* the loop, the update just made did not meet |delta| < |pSat|*1e-10; when it
\* has returned, the returned value is the iterate of the update just made and
\* that update met the tolerance; when it has thrown NumericalIssue, 20 updates
\* were made, none met the tolerance, and no value was returned.
C10_NewtonBoundedAndConverged ==
    newton.pc # "idle" =>
        /\ newton.updates <= NewtonMaxIter
        /\ newton.pc = "loop" =>
              /\ newton.updates = newton.i
              /\ newton.updates > 0 => ~WithinTolerance(newton.delta, newton.pSat)
              /\ last = NoCall
        /\ newton.pc = "returned" =>
              /\ WithinTolerance(newton.delta, newton.pSat)
              /\ last.out = Returned(newton.pSat)
              /\ newton.updates = newton.i + 1
        /\ newton.pc = "thrown" =>
              /\ newton.updates = NewtonMaxIter
              /\ ~WithinTolerance(newton.delta, newton.pSat)
              /\ last.out = Thrown("NumericalIssue")

\* the call returned after several updates with a nonzero last step
C10_Witness ==
    /\ newton.pc = "returned"
    /\ newton.updates > 2
    /\ newton.delta # <<0, 0>>

\* C11: when gasSaturationPressure gives up, the exception is a NumericalIssue
\* and its message carries the target composition XgO and the region index of
\* the call.
C11_ErrorCarriesCompositionAndRegion ==
    newton.pc = "thrown" =>
        /\ last.out = Thrown("NumericalIssue")
        /\ "XgO" \in DOMAIN newton.what
        /\ newton.what.XgO = newton.XgO
        /\ "regionIdx" \in DOMAIN newton.what
        /\ newton.what.regionIdx = newton.regionIdx

\* C24: in every pass of the Newton loop the step of the finite difference
\* is eps = p * 1e-11 for the iterate p of that pass: the pressure eps was
\* computed from is the pressure the pass starts with.
C24_StepFromCurrentIterate ==
    newton.pc = "loop" => newton.epsOf = newton.pSat

(***************************************************************************)
(* SpecCalls: the property queries of a finalized WetGasPvt, call by call. *)
(***************************************************************************)
EmptyGasState ==
    [oilPvt |-> 0, gasReferenceDensity |-> <<>>, oilReferenceDensity |-> <<>>,
     gasMolarMass |-> <<>>, oilMolarMass |-> <<>>, inverseGasB |-> <<>>,
     gasMu |-> <<>>, inverseGasBMu |-> <<>>, oilVaporizationFactorTable |-> <<>>,
     saturationPressureSpline |-> <<>>]

\* initFromDeck(dk), then initEnd(oilPvt): the stored state and the outcome
FinalizeFromDeck(dk) ==
    LET fromDeck == initFromDeck(EmptyGasState, dk)
    IN IF fromDeck.out # Done THEN fromDeck
       ELSE InitEndRegions([fromDeck.st EXCEPT !.oilPvt = TheOilPvt], 1)

\* the decks of GasDecks whose initialization completes
GoodGasDecks == {dk \in GasDecks : FinalizeFromDeck(dk).out = Done}

GasStateIs(st) ==
    /\ oilPvt_ = st.oilPvt
    /\ gasReferenceDensity_ = st.gasReferenceDensity
    /\ oilReferenceDensity_ = st.oilReferenceDensity
    /\ gasMolarMass_ = st.gasMolarMass
    /\ oilMolarMass_ = st.oilMolarMass
    /\ inverseGasB_ = st.inverseGasB
    /\ gasMu_ = st.gasMu
    /\ inverseGasBMu_ = st.inverseGasBMu
    /\ oilVaporizationFactorTable_ = st.oilVaporizationFactorTable
    /\ saturationPressureSpline_ = st.saturationPressureSpline

\* a finalized object, read from a deck
GasFinalized ==
    /\ deck \in GoodGasDecks
    /\ GasStateIs(FinalizeFromDeck(deck).st)
    /\ gasPhase = "finalized"
    /\ setup = 0

InitCalls ==
    /\ MuxInit
    /\ GasFinalized
    /\ newton = [pc |-> "idle"]
    /\ frames = <<>>
    /\ threads = <<>>
    /\ fluid = FluidStatic
    /\ thermal = EclThermalLawManager
    /\ paramCaches = <<>>
    /\ last = NoCall
    /\ queryLog = {}

\* the arguments of a query, fugacityCoefficientWater(regionIdx, T, pressure)
\* included
AllGasArgs(op, n) ==
    IF op = "fugacityCoefficientWater"
    THEN {<<r, p, Num(0)>> : r \in 0..(n - 1), p \in GasPressures}
    ELSE GasArgs(op, n)

NextCalls ==
    \/ \E op \in AllGasQueryOps : \E args \in AllGasArgs(op, Len(gasMu_)) :
           QueryEnter(op, args)
    \/ QueryCall
    \/ \E converged \in BOOLEAN : QueryLeave(converged)

SpecCalls == InitCalls /\ [][NextCalls]_vars

\* the most queries one activation of op calls
MaxCallsOf(op) ==
    IF op = "gasSaturationPressure" THEN 2 * NewtonMaxIter ELSE 1

\* C13: every property query returns or throws after finitely many steps: no
\* query is active on the call stack twice with the same arguments, an
\* activation of gasSaturationPressure makes the calls of at most 20 Newton
\* passes and every other activation calls at most one query.
C13_QueriesTerminate ==
    /\ \A i, j \in DOMAIN frames :
           (i < j /\ frames[i].op = frames[j].op) => frames[i].args # frames[j].args
    /\ \A i \in DOMAIN frames : frames[i].calls <= MaxCallsOf(frames[i].op)

(***************************************************************************)
(* SpecFluid: the static members of BlackOil under any order of its        *)
(* operations, next to one finalized WetGasPvt.                            *)
(***************************************************************************)
InitFluid ==
    /\ MuxInit
    /\ GasFinalized
    /\ deck = CHOOSE dk \in GoodGasDecks : TRUE
    /\ newton = [pc |-> "idle"]
    /\ frames = <<>>
    /\ threads = <<>>
    /\ fluid = FluidStatic
    /\ thermal = EclThermalLawManager
    /\ paramCaches = <<>>
    /\ last = NoCall
    /\ queryLog = {}

\* the queries of WetGasPvt that take <<regionIdx, temperature, pressure>>,
\* with one region index past the end of the per-region members
FluidGasArgs == {<<r, Num(1), Num(0)>> : r \in 0..Len(gasMu_)}

NextFluid ==
    \/ \E n \in 0..MaxFluidRegions : FluidInitBegin(n)
    \/ \E yesno \in BOOLEAN : FluidSetEnableDissolvedGas(yesno)
    \/ \E yesno \in BOOLEAN : FluidSetEnableVaporizedOil(yesno)
    \/ FluidEnableDissolvedGas
    \/ FluidEnableVaporizedOil
    \/ \E regionIdx \in RegionIndices : \E rho \in FluidDensities(regionIdx) :
           FluidSetReferenceDensities(rho, regionIdx)
    \/ FluidInitEnd
    \/ \E phaseIdx \in 0..(numPhases - 1) : \E regionIdx \in RegionIndices :
           FluidReferenceDensity(phaseIdx, regionIdx)
    \/ \E compIdx \in 0..(numComponents - 1) : \E regionIdx \in RegionIndices :
           FluidMolarMass(compIdx, regionIdx)
    \/ \E op \in PhaseOps : \E phaseIdx \in PhaseIndices : FluidPhaseQuery(op, phaseIdx)
    \/ \E phaseIdx \in PhaseIndices : \E compIdx \in CompIndices :
           FluidFugacityCoefficient(phaseIdx, compIdx)
    \/ \E op \in {"oilVaporizationFactor", "saturatedGasOilMassFraction",
                   "fugacityCoefficientGas"} :
           \E args \in FluidGasArgs : FluidGasQuery(op, args)

SpecFluid == InitFluid /\ [][NextFluid]_vars

\* the operations of BlackOil that take a region index, as their last argument
FluidRegionOps == {"setReferenceDensities", "referenceDensity", "molarMass"}

Rejected(out) == out.kind \in {"abort", "throw"}

\* C14: an operation given a region index that is not below the number of
\* configured regions is stopped by a bounds check, it never reaches the
\* per-region storage (BlackOil::setReferenceDensities, referenceDensity,
\* molarMass and the queries of WetGasPvt).
C14_RegionIndexIsChecked ==
    /\ (last.obj = "fluid" /\ last.op \in FluidRegionOps
            /\ last.args[2] >= Len(fluid.referenceDensity_))
         => Rejected(last.out)
    /\ (last.obj = "gas" /\ last.args[1] >= Len(gasMu_))
         => Rejected(last.out)

\* C16: initBegin sets enableDissolvedGas_ to true and enableVaporizedOil_ to
\* false whatever the flags were before; a setter stores its argument in its
\* own flag and leaves the other one; a getter returns its own flag; no other
\* operation changes a flag.
C16_FlagDefaultsAndSetters ==
    /\ [](last.obj = "fluid" =>
            /\ last.op = "initBegin" =>
                  fluid.enableDissolvedGas_ /\ ~fluid.enableVaporizedOil_
            /\ last.op = "setEnableDissolvedGas" =>
                  fluid.enableDissolvedGas_ = last.args[1]
            /\ last.op = "setEnableVaporizedOil" =>
                  fluid.enableVaporizedOil_ = last.args[1]
            /\ last.op = "enableDissolvedGas" =>
                  last.out = Returned(<<fluid.enableDissolvedGas_>>)
            /\ last.op = "enableVaporizedOil" =>
                  last.out = Returned(<<fluid.enableVaporizedOil_>>))
    /\ [][/\ last'.op \notin {"initBegin", "setEnableDissolvedGas"} =>
                fluid'.enableDissolvedGas_ = fluid.enableDissolvedGas_
          /\ last'.op \notin {"initBegin", "setEnableVaporizedOil"} =>
                fluid'.enableVaporizedOil_ = fluid.enableVaporizedOil_]_vars

\* initBegin has run while dissolved gas was disabled and vaporized oil enabled
C16_Witness ==
    /\ last.obj = "fluid"
    /\ last.op = "initBegin"
    /\ last.pre = "vaporized"
    /\ fluid.enableDissolvedGas_
    /\ ~fluid.enableVaporizedOil_

\* the operations whose assertion guards a phase index, their first argument
PhaseAssertingOps == {"phaseName", "density", "viscosity", "fugacityCoefficient"}

\* C17: the assertions of phaseName, density, viscosity and
\* fugacityCoefficient stop every phase index outside 0..numPhases-1 and
\* every component index outside 0..numComponents-1.
C17_AssertionsRejectOutOfRange ==
    last.obj = "fluid" =>
        /\ (last.op \in PhaseAssertingOps /\ last.args[1] >= numPhases)
              => last.out = Aborted
        /\ (last.op = "fugacityCoefficient" /\ last.args[2] >= numComponents)
              => last.out = Aborted

(***************************************************************************)
(* SpecThreads: property queries issued by several threads, without any    *)
(* synchronization, on one finalized WetGasPvt and one finalized           *)
(* OilPvtMultiplexer.  A query is a sequence of reads of data members, one *)
(* read per step, followed by the computation of its result from the       *)
(* values it read; the steps of different threads interleave freely.       *)
(***************************************************************************)
MaxThreads == 2
ThreadIds == 1..MaxThreads

\* the queries the threads issue: the three queries of the WetGasPvt at
\* region 0, pressure 1 and XgO = 1/4, and of the multiplexer viscosity at
\* region 0, temperature 1, pressure 1 and Rs = 1 and saturationPressure
\* (which only live oil answers) at region 0, temperature 1 and Rs = 1
ThreadQueries ==
    {[obj |-> "gas", op |-> op, args |-> <<0, Num(1), Frac(1, 4)>>] :
        op \in GasFourArgOps}
    \cup {[obj |-> "mux", op |-> "viscosity", args |-> <<0, 1, 1, 1>>],
          [obj |-> "mux", op |-> "saturationPressure", args |-> <<0, 1, 1>>]}

\* the data members a query reads, in the order of its statements; density
\* reads the reference densities itself and again inside formationVolumeFactor.
\* The multiplexer reads approach_ in the switch of the macro and again in
\* "assert(approach() == approachV)" of getRealPvt, before it casts
\* realOilPvt_; a build with NDEBUG has no second read, and its runs are those
\* in which no step of another thread separates the two reads.
ReadsOf(obj, op) ==
    IF obj = "mux" THEN <<"approach_", "approach_", "realOilPvt_", "object">>
    ELSE CASE op = "viscosity" ->
                <<"oilReferenceDensity", "gasReferenceDensity", "inverseGasB",
                  "inverseGasBMu">>
           [] op = "formationVolumeFactor" ->
                <<"oilReferenceDensity", "gasReferenceDensity", "inverseGasB">>
           [] op = "density" ->
                <<"oilReferenceDensity", "gasReferenceDensity",
                  "oilReferenceDensity", "gasReferenceDensity", "inverseGasB">>

\* no object behind a pointer that is not one of the heap
NoObject == [kind |-> "none", frees |-> 0, deckInit |-> FALSE, ended |-> FALSE]

\* the value one read yields: the member of region regionIdx of the WetGasPvt
\* state st, or a member of the multiplexer (the object is the one behind the
\* pointer the query read before)
ReadValue(st, obj, name, regionIdx, view) ==
    IF obj = "gas" THEN st[name][regionIdx + 1]
    ELSE CASE name = "approach_" -> approach_
           [] name = "realOilPvt_" -> realOilPvt_
           [] name = "object" ->
                IF view[3] \in 1..Len(heap) THEN heap[view[3]] ELSE NoObject

\* a viscosity that builds the inverse(B*mu) table when it is entered
StateAfterRead_LazyInit(st, op, name) ==
    IF op = "viscosity" /\ name = "oilReferenceDensity"
    THEN InitEndRegions(st, 1).st
    ELSE st

\* What executing a read does to the stored state of the WetGasPvt: the
\* queries are const methods and no member is mutable, so nothing.
StateAfterRead(st, op, name) == st

\* The result of a query computed from the values it read, view[i] being the
\* value of its i-th read.  viscosity and formationVolumeFactor form Rv from
\* their two reads of the reference densities and evaluate the tables they
\* read.  density keeps rhogRef and forms its Rv from its own two reads; Bg is
\* what formationVolumeFactor computes from the reads it makes itself (the
\* third to the fifth).
ResultFromView(obj, op, args, view) ==
    IF obj = "mux"
    THEN IF view[1] = NoOilPvt THEN Thrown("std::logic_error")
         ELSE IF view[2] # view[1] THEN Aborted
         ELSE IF view[4].kind = view[1] /\ view[4].frees = 0
         THEN ImplCall(view[4].kind, op, args)
         ELSE Undefined
    ELSE LET pressure == args[2]
             XgO == args[3]
             RvOf(rhooRef, rhogRef) ==
                 FMul(FDiv(XgO, FSub(Num(1), XgO)), FDiv(rhogRef, rhooRef))
             BgOf(rhooRef, rhogRef, invB) ==
                 VDiv(Num(1), <<"inverseGasB_.eval", invB,
                                <<pressure, RvOf(rhooRef, rhogRef), TRUE>>>>)
         IN CASE op = "viscosity" ->
                   LET Rv == RvOf(view[1], view[2])
                       invBg == <<"inverseGasB_.eval", view[3], <<pressure, Rv, TRUE>>>>
                       invMugBg == <<"inverseGasBMu_.eval", view[4], <<pressure, Rv, TRUE>>>>
                   IN Returned(VDiv(invBg, invMugBg))
              [] op = "formationVolumeFactor" ->
                   Returned(BgOf(view[1], view[2], view[3]))
              [] op = "density" ->
                   LET rhogRef == view[2]
                       Bg == BgOf(view[3], view[4], view[5])
                       Rv == RvOf(view[1], view[2])
                   IN Returned(<<"+", VDiv(rhogRef, Bg), VDiv(FMul(rhogRef, Rv), Bg)>>)

\* the query run alone on the stored state: the outcome of the call
SoloOutcome(q) ==
    IF q.obj = "mux" THEN MuxQueryOutcome(q.op, q.args)
    ELSE GasQueryOutcome(GasState, q.op, q.args, TRUE)

IdleThread == [pc |-> "idle"]

ThreadsUnchanged == UNCHANGED <<deck, gasPhase, setup, muxVars, newton, frames,
                              thermal, paramCaches, fluid, last, queryLog>>

\* a thread calls a query
ThreadStart(t, q) ==
    /\ threads[t].pc \in {"idle", "done"}
    /\ threads' = [threads EXCEPT ![t] =
           [pc |-> "run", obj |-> q.obj, op |-> q.op, args |-> q.args,
            view |-> <<>>, overlapped |-> FALSE,
            solo |-> SoloOutcome(q)]]
    /\ UNCHANGED gasStored
    /\ ThreadsUnchanged

\* another thread is between two of its reads
OthersMidway(t) ==
    \E u \in ThreadIds \ {t} :
        threads[u].pc = "run" /\ Len(threads[u].view) >= 1

\* a thread executes its next read
ThreadRead(t) ==
    /\ threads[t].pc = "run"
    /\ Len(threads[t].view) < Len(ReadsOf(threads[t].obj, threads[t].op))
    /\ LET th == threads[t]
           name == ReadsOf(th.obj, th.op)[Len(th.view) + 1]
           s1 == IF th.obj = "gas" THEN StateAfterRead(GasState, th.op, name)
                 ELSE GasState
       IN /\ GasStateBecomes(s1)
          /\ threads' = [threads EXCEPT ![t] =
                 [th EXCEPT !.view = Append(th.view,
                                ReadValue(s1, th.obj, name, th.args[1], th.view)),
                            !.overlapped = th.overlapped \/ OthersMidway(t)]]
    /\ ThreadsUnchanged

\* a thread computes its result and returns
ThreadReturn(t) ==
    /\ threads[t].pc = "run"
    /\ Len(threads[t].view) = Len(ReadsOf(threads[t].obj, threads[t].op))
    /\ LET th == threads[t]
       IN threads' = [threads EXCEPT ![t] =
              [pc |-> "done", obj |-> th.obj, op |-> th.op, args |-> th.args,
               overlapped |-> th.overlapped, solo |-> th.solo,
               result |-> ResultFromView(th.obj, th.op, th.args, th.view)]]
    /\ UNCHANGED gasStored
    /\ ThreadsUnchanged

\* the multiplexer after initFromDeck and initEnd have selected and finalized
\* the implementation of approach appr
MuxFinalizedAs(appr) ==
    /\ approach_ = appr
    /\ realOilPvt_ = 1
    /\ heap = <<[NewObject(NewImplFor(appr)) EXCEPT !.deckInit = TRUE, !.ended = TRUE]>>
    /\ muxAlive = TRUE

InitThreads ==
    /\ \E appr \in {LiveOilPvt, DeadOilPvt} : MuxFinalizedAs(appr)
    /\ GasFinalized
    /\ deck = CHOOSE dk \in GoodGasDecks : TRUE
    /\ newton = [pc |-> "idle"]
    /\ frames = <<>>
    /\ threads = [t \in ThreadIds |-> IdleThread]
    /\ fluid = FluidStatic
    /\ thermal = EclThermalLawManager
    /\ paramCaches = <<>>
    /\ last = NoCall
    /\ queryLog = {}

NextThreads ==
    \E t \in ThreadIds :
        \/ \E q \in ThreadQueries : ThreadStart(t, q)
        \/ ThreadRead(t)
        \/ ThreadReturn(t)

SpecThreads == InitThreads /\ [][NextThreads]_vars

\* C15: whatever the interleaving of the reads of concurrently running
\* queries on a finalized WetGasPvt or OilPvtMultiplexer, a query returns
\* the result it returns when run alone from the state it started in.
C15_ConcurrentQueriesAgreeWithSolo ==
    \A t \in ThreadIds :
        threads[t].pc = "done" => threads[t].result = threads[t].solo

\* a density query of the WetGasPvt has returned a value after reading
\* between the reads of a query of another thread
C15_Witness ==
    \E t \in ThreadIds :
        /\ threads[t].pc = "done"
        /\ threads[t].obj = "gas"
        /\ threads[t].op = "density"
        /\ threads[t].overlapped
        /\ threads[t].result.kind = "value"
        /\ threads[t].result = threads[t].solo

(***************************************************************************)
(* The axes of the 2-D tables inverseGasB_ and gasMu_: the quantity given  *)
(* to appendXPos (outer position) and the quantity given to                *)
(* appendSamplePoint as coordinate (inner), per construction path, and the *)
(* quantities the queries pass to eval.                                    *)
(***************************************************************************)
\* initFromDeck: appendXPos(pg), appendSamplePoint(outerIdx, Rv, ...)
DeckTableAxes == <<"pressure", "Rv">>

\* setSaturatedGasFormationVolumeFactor and setSaturatedGasViscosity:
\* appendXPos(Rv), appendSamplePoint(RvIdx, pg, ...)
GuessTableAxes == <<"Rv", "pressure">>

\* viscosity and formationVolumeFactor: eval(pressure, Rv, true)
EvalArguments == <<"pressure", "Rv">>

\* the axes of the tables of the object: it was filled from a deck or,
\* when there is none, by the setters
StoredTableAxes == IF deck # <<>> THEN DeckTableAxes ELSE GuessTableAxes

\* C18: whichever way the tables of a finalized object were constructed,
\* their outer position and inner coordinate are the quantities that
\* viscosity and formationVolumeFactor pass to eval as first and second
\* argument.
C18_OneAxisConvention ==
    (gasPhase = "finalized" /\ Len(inverseGasB_) > 0 /\ numX(inverseGasB_[1]) > 0)
        => StoredTableAxes = EvalArguments

(***************************************************************************)
(* SpecFinalize: one WetGasPvt read from a deck whose initEnd is called    *)
(* any number of times up to MaxInitEnds, with queries in between.         *)
(***************************************************************************)
MaxInitEnds == 3

\* the number of initEnd calls that have appended to the inverse(B*mu) table
\* of the first region
InitEndCalls ==
    IF Len(gasMu_) = 0 \/ numX(gasMu_[1]) = 0 THEN 0
    ELSE numX(inverseGasBMu_[1]) \div numX(gasMu_[1])

\* initEnd called on an object that is finalized already: the method has no
\* guard and no member records that it ran
GasInitEndAgain ==
    /\ gasPhase = "finalized"
    /\ InitEndCalls < MaxInitEnds
    /\ LET res == initEnd(GasState, TheOilPvt)
       IN /\ GasStateBecomes(res.st)
          /\ gasPhase' = IF res.out = Done THEN "finalized" ELSE "failed"
          /\ last' = Call("gas", "initEnd", <<>>, gasPhase, res.out)
          /\ queryLog' = res.queries
    /\ UNCHANGED <<deck, setup, muxVars, newton, frames, threads, thermal, paramCaches, fluid>>

InitFinalize ==
    /\ MuxInit
    /\ GasFresh
    /\ deck \in GasDecks
    /\ NewtonIdle
    /\ last = NoCall
    /\ queryLog = {}

NextFinalize ==
    \/ GasInitFromDeck
    \/ \E kws \in SUBSET DeckKeywords : FluidOilInitFromDeck(kws)
    \/ FluidGasInitEnd
    \/ GasInitEndAgain
    \/ FluidOilInitEnd
    \/ \E op \in GasQueryOps : \E args \in GasArgs(op, Len(gasMu_)) :
           \E converged \in BOOLEAN : GasQuery(op, args, converged)

SpecFinalize == InitFinalize /\ [][NextFinalize]_vars

\* C19: however often initEnd has been called, the inverse(B*mu) table of
\* every region of a finalized object has the outer positions of gasMu_ (same
\* count, same order), at each outer position the inner coordinates of gasMu_,
\* and at each sample the value invGasB/gasMu of the matching samples.
C19_InvBMuBuiltOnce ==
    gasPhase = "finalized" =>
        \A r \in 1..Len(gasMu_) :
            /\ numX(inverseGasBMu_[r]) = numX(gasMu_[r])
            /\ \A i \in 1..numX(gasMu_[r]) :
                  /\ i <= numX(inverseGasBMu_[r])
                  /\ xAt(inverseGasBMu_[r], i) = xAt(gasMu_[r], i)
                  /\ numY(inverseGasBMu_[r], i) = numY(gasMu_[r], i)
                  /\ \A j \in 1..numY(gasMu_[r], i) :
                        /\ yAt(inverseGasBMu_[r], i, j) = yAt(gasMu_[r], i, j)
                        /\ valueAt(inverseGasBMu_[r], i, j) =
                              VDiv(VMul(valueAt(inverseGasB_[r], i, j), Num(1)),
                                   valueAt(gasMu_[r], i, j))

(***************************************************************************)
(* SpecBoot: BlackOil::initFromDeck, one statement per step.  The          *)
(* statement to execute next is the one that follows the statement         *)
(* executed last; an exception of a statement ends the method.  The water  *)
(* multiplexer is not among the sources: of it the model keeps whether     *)
(* its initFromDeck and its initEnd have run.                              *)
(***************************************************************************)
\* a statement that starts in another order: the gas phase is finalized as
\* soon as its own tables are read
BootPredecessor_EarlyInitEnd(obj, op) ==
    CASE obj = "fluid" /\ op = "initBegin" -> <<"none", "none">>
      [] obj = "fluid" /\ op = "setEnableDissolvedGas" -> <<"fluid", "initBegin">>
      [] obj = "fluid" /\ op = "setEnableVaporizedOil" -> <<"fluid", "setEnableDissolvedGas">>
      [] obj = "gas" /\ op = "initFromDeck" -> <<"fluid", "setReferenceDensities">>
      [] obj = "gas" /\ op = "initEnd" -> <<"gas", "initFromDeck">>
      [] obj = "mux" /\ op = "initFromDeck" -> <<"gas", "initEnd">>
      [] obj = "water" /\ op = "initFromDeck" -> <<"mux", "initFromDeck">>
      [] obj = "mux" /\ op = "initEnd" -> <<"water", "initFromDeck">>
      [] obj = "water" /\ op = "initEnd" -> <<"mux", "initEnd">>
      [] obj = "fluid" /\ op = "initEnd" -> <<"water", "initEnd">>

\* the statement of BlackOil::initFromDeck that precedes the call op on obj
BootPredecessor(obj, op) ==
    CASE obj = "fluid" /\ op = "initBegin" -> <<"none", "none">>
      [] obj = "fluid" /\ op = "setEnableDissolvedGas" -> <<"fluid", "initBegin">>
      [] obj = "fluid" /\ op = "setEnableVaporizedOil" -> <<"fluid", "setEnableDissolvedGas">>
      [] obj = "gas" /\ op = "initFromDeck" -> <<"fluid", "setReferenceDensities">>
      [] obj = "mux" /\ op = "initFromDeck" -> <<"gas", "initFromDeck">>
      [] obj = "water" /\ op = "initFromDeck" -> <<"mux", "initFromDeck">>
      [] obj = "gas" /\ op = "initEnd" -> <<"water", "initFromDeck">>
      [] obj = "mux" /\ op = "initEnd" -> <<"gas", "initEnd">>
      [] obj = "water" /\ op = "initEnd" -> <<"mux", "initEnd">>
      [] obj = "fluid" /\ op = "initEnd" -> <<"water", "initEnd">>

\* control has reached the call op on obj
BootAt(obj, op) ==
    /\ <<last.obj, last.op>> = BootPredecessor(obj, op)
    /\ last.out = Done

\* the DENSITY record of region regionIdx: <<rhoOil, rhoWater, rhoGas>>
DensityRecord(regionIdx) ==
    <<Num(deck[regionIdx + 1].rhoRefO), Num(10), Num(deck[regionIdx + 1].rhoRefG)>>

\* initBegin(numRegions), numRegions the size of the DENSITY keyword
BootInitBegin ==
    /\ BootAt("fluid", "initBegin")
    /\ FluidInitBegin(Len(deck))

\* setEnableDissolvedGas(deck->hasKeyword("DISGAS"))
BootSetEnableDissolvedGas(yesno) ==
    /\ BootAt("fluid", "setEnableDissolvedGas")
    /\ FluidSetEnableDissolvedGas(yesno)

\* setEnableVaporizedOil(deck->hasKeyword("VAPOIL"))
BootSetEnableVaporizedOil(yesno) ==
    /\ BootAt("fluid", "setEnableVaporizedOil")
    /\ FluidSetEnableVaporizedOil(yesno)

\* one pass of the loop over the regions: setReferenceDensities(..., regionIdx)
BootSetReferenceDensities ==
    /\ last.obj = "fluid"
    /\ last.out = Done
    /\ \/ /\ last.op = "setEnableVaporizedOil"
          /\ 0 < Len(deck)
          /\ FluidSetReferenceDensities(DensityRecord(0), 0)
       \/ /\ last.op = "setReferenceDensities"
          /\ last.args[2] + 1 < Len(deck)
          /\ FluidSetReferenceDensities(DensityRecord(last.args[2] + 1), last.args[2] + 1)

\* gasPvt_ = make_shared<GasPvt>(); gasPvt_->initFromDeck(deck, eclState)
BootGasInitFromDeck ==
    /\ BootAt("gas", "initFromDeck")
    /\ last.args[2] + 1 = Len(deck)
    /\ GasInitFromDeck

\* oilPvt_ = make_shared<OilPvt>(); oilPvt_->initFromDeck(deck, eclState)
BootOilInitFromDeck(kws) ==
    /\ BootAt("mux", "initFromDeck")
    /\ MuxInitFromDeck(kws)

\* waterPvt_ = make_shared<WaterPvt>(); waterPvt_->initFromDeck(deck, eclState)
BootWaterInitFromDeck ==
    /\ BootAt("water", "initFromDeck")
    /\ fluid' = [fluid EXCEPT !.waterPvt_ = [deckInit |-> TRUE, ended |-> FALSE]]
    /\ last' = Call("water", "initFromDeck", <<>>, "created", Done)
    /\ UNCHANGED <<muxVars, gasVars, newton, frames, threads, thermal, paramCaches, queryLog>>

\* gasPvt_->initEnd(oilPvt_.get())
BootGasInitEnd ==
    /\ BootAt("gas", "initEnd")
    /\ GasInitEnd

\* oilPvt_->initEnd(gasPvt_.get()); the initEnd of the multiplexer at hand
\* has no parameter
BootOilInitEnd ==
    /\ BootAt("mux", "initEnd")
    /\ MuxInitEnd

\* waterPvt_->initEnd()
BootWaterInitEnd ==
    /\ BootAt("water", "initEnd")
    /\ fluid' = [fluid EXCEPT !.waterPvt_.ended = TRUE]
    /\ last' = Call("water", "initEnd", <<>>, "deckDone", Done)
    /\ UNCHANGED <<muxVars, gasVars, newton, frames, threads, thermal, paramCaches, queryLog>>

\* initEnd()
BootInitEnd ==
    /\ BootAt("fluid", "initEnd")
    /\ FluidInitEnd

InitBoot ==
    /\ MuxInit
    /\ GasFresh
    /\ deck \in Decks
    /\ NewtonIdle
    /\ last = NoCall
    /\ queryLog = {}

NextBoot ==
    \/ BootInitBegin
    \/ \E yesno \in BOOLEAN : BootSetEnableDissolvedGas(yesno)
    \/ \E yesno \in BOOLEAN : BootSetEnableVaporizedOil(yesno)
    \/ BootSetReferenceDensities
    \/ BootGasInitFromDeck
    \/ \E kws \in SUBSET DeckKeywords : BootOilInitFromDeck(kws)
    \/ BootWaterInitFromDeck
    \/ BootGasInitEnd
    \/ BootOilInitEnd
    \/ BootWaterInitEnd
    \/ BootInitEnd

SpecBoot == InitBoot /\ [][NextBoot]_vars

\* the implementation object of the oil multiplexer, when it has one
OilObject == IF realOilPvt_ \in 1..Len(heap) THEN heap[realOilPvt_] ELSE NoObject

\* C22: in BlackOil::initFromDeck every initEnd of a multiplexer is called
\* after all three multiplexers were deck-initialized; the gas initEnd is
\* handed the oil multiplexer, deck-initialized and not yet finalized, the oil
\* initEnd is called with the gas phase deck-initialized (and finalized); the
\* fluid system's own initEnd is called after the three have been finalized.
C22_InitFromDeckOrder ==
    /\ (last.op = "initEnd" /\ last.obj \in {"gas", "mux", "water"}) =>
          /\ gasPhase \in {"deckDone", "finalized", "failed"}
          /\ OilObject.deckInit
          /\ fluid.waterPvt_.deckInit
    /\ (last.op = "initEnd" /\ last.obj = "gas") =>
          /\ last.pre = "deckDone"
          /\ oilPvt_ = TheOilPvt
          /\ ~OilObject.ended
          /\ ~fluid.waterPvt_.ended
    /\ (last.op = "initEnd" /\ last.obj = "mux" /\ last.out = Done) =>
          /\ gasPhase = "finalized"
          /\ OilObject.ended
          /\ ~fluid.waterPvt_.ended
    /\ (last.op = "initEnd" /\ last.obj = "fluid") =>
          /\ gasPhase = "finalized"
          /\ OilObject.ended
          /\ fluid.waterPvt_.ended
    /\ (last.op \in {"initFromDeck", "initBegin", "setEnableDissolvedGas",
                     "setEnableVaporizedOil", "setReferenceDensities"}) =>
          /\ gasPhase # "finalized"
          /\ ~OilObject.ended
          /\ ~fluid.waterPvt_.ended

\* the method has run to its end
C22_Witness ==
    /\ last.obj = "fluid"
    /\ last.op = "initEnd"
    /\ last.out = Done
    /\ gasPhase = "finalized"
    /\ oilPvt_ = TheOilPvt
    /\ OilObject.ended
    /\ fluid.waterPvt_.ended

\* C29: after BlackOil::initEnd the molar mass of the gas component of every
\* region r is the ideal-gas molar mass of region r's own gas reference
\* density, and equals the gas molar mass WetGasPvt::initFromDeck stored for
\* region r from the same deck.
C29_GasMolarMassPerRegion ==
    (last.obj = "fluid" /\ last.op = "initEnd" /\ gasPhase = "finalized") =>
        /\ Len(fluid.molarMass_) = Len(deck)
        /\ Len(gasMolarMass_) = Len(deck)
        /\ \A r \in 1..Len(deck) :
              /\ fluid.molarMass_[r][gasCompIdx + 1]
                    = IdealGasMolarMass(fluid.referenceDensity_[r][gasPhaseIdx + 1])
              /\ fluid.molarMass_[r][gasCompIdx + 1] = gasMolarMass_[r]

(***************************************************************************)
(* SpecCompanion: BlackOil::initFromDeck, then any order of                *)
(* BlackOil::setOilPvt, setGasPvt, setWaterPvt and fugacityCoefficientOil  *)
(* of the gas phase object the fluid system holds.  The fluid system is    *)
(* the only owner of the objects initFromDeck made: assigning another      *)
(* object to one of its shared pointers destroys the object held before.   *)
(***************************************************************************)
\* BlackOil::initFromDeck has returned
InitFromDeckReturned ==
    \/ /\ last.obj = "fluid"
       /\ last.op \in {"initEnd", "setOilPvt", "setGasPvt", "setWaterPvt"}
       /\ last.out = Done
    \/ /\ last.obj = "gas"
       /\ last.op = "fugacityCoefficientOil"

\* what oilPvt_ of the gas phase object points to
CompanionState ==
    IF oilPvt_ = 0 THEN "unset"
    ELSE IF ~muxAlive THEN "dangling"
    ELSE IF ~(OilObject.deckInit /\ OilObject.ended) THEN "uninitialized"
    ELSE "live"

\* static void setOilPvt(std::shared_ptr<OilPvt> pvtObj), pvtObj another
\* multiplexer than the one held: the last owner of the multiplexer held
\* goes away and ~OilPvtMultiplexer runs
BlackOilSetOilPvt ==
    /\ InitFromDeckReturned
    /\ muxAlive' = FALSE
    /\ LET p == getRealPvt(approach_, realOilPvt_, heap)
       IN heap' = IF muxAlive /\ approach_ # NoOilPvt /\ p # 0
                  THEN [heap EXCEPT ![p].frees = @ + 1]
                  ELSE heap
    /\ last' = Call("fluid", "setOilPvt", <<>>, CompanionState, Done)
    /\ UNCHANGED <<approach_, realOilPvt_, gasVars, newton, frames, threads, thermal,
                   paramCaches, fluid, queryLog>>

\* static void setGasPvt(std::shared_ptr<GasPvt> pvtObj), pvtObj a gas phase
\* object on which initEnd was not called
BlackOilSetGasPvt ==
    /\ InitFromDeckReturned
    /\ gasPhase' = "constructed"
    /\ setup' = 0
    /\ GasStateBecomes(EmptyGasState)
    /\ last' = Call("fluid", "setGasPvt", <<>>, CompanionState, Done)
    /\ UNCHANGED <<deck, muxVars, newton, frames, threads, thermal, paramCaches, fluid,
                   queryLog>>

\* static void setWaterPvt(std::shared_ptr<WaterPvt> pvtObj), pvtObj a water
\* phase object on which neither initFromDeck nor initEnd was called
BlackOilSetWaterPvt ==
    /\ InitFromDeckReturned
    /\ fluid' = [fluid EXCEPT !.waterPvt_ = [deckInit |-> FALSE, ended |-> FALSE]]
    /\ last' = Call("fluid", "setWaterPvt", <<>>, CompanionState, Done)
    /\ UNCHANGED <<muxVars, gasVars, newton, frames, threads, thermal, paramCaches,
                   queryLog>>

\* gasPvt_->fugacityCoefficientOil(regionIdx, temperature, pressure): reads
\* through oilPvt_
GasFugacityCoefficientOil(args) ==
    /\ InitFromDeckReturned
    /\ last' = Call("gas", "fugacityCoefficientOil", args, CompanionState,
                    IF CompanionState = "live" /\ gasPhase = "finalized"
                    THEN GasQueryOutcome(GasState, "fugacityCoefficientOil", args, TRUE)
                    ELSE Undefined)
    /\ UNCHANGED <<muxVars, gasVars, newton, frames, threads, thermal, paramCaches, fluid,
                   queryLog>>

NextCompanion ==
    \/ NextBoot
    \/ BlackOilSetOilPvt
    \/ BlackOilSetGasPvt
    \/ BlackOilSetWaterPvt
    \/ GasFugacityCoefficientOil(<<0, Num(1), Num(0)>>)

SpecCompanion == InitBoot /\ [][NextCompanion]_vars

\* C30: whenever fugacityCoefficientOil of the gas phase object runs, its
\* oilPvt_ points to a live, initialized OilPvtMultiplexer, whatever calls of
\* initEnd, BlackOil::initFromDeck, setOilPvt and setGasPvt and whatever
\* destructions came before; and the query reads the companion only: no
\* member of the multiplexer changes in the step.
C30_CompanionLiveAtQuery ==
    /\ []((last.obj = "gas" /\ last.op = "fugacityCoefficientOil") => last.pre = "live")
    /\ [][last'.op = "fugacityCoefficientOil" => UNCHANGED muxVars]_vars

(***************************************************************************)
(* SpecThermal: one EclThermalLawManager, initialized and queried.         *)
(***************************************************************************)
InitThermal ==
    /\ MuxInit
    /\ GasIdle
    /\ NewtonIdle
    /\ last = NoCall
    /\ queryLog = {}

NextThermal ==
    \/ \E ecl \in EclStates : \E c2c \in ElemMaps : \E absent \in AbsentFetches :
           ThermalInitParamsForElements(ecl, c2c, absent)
    \/ \E elemIdx \in 0..MaxElems : ThermalSolidEnergyLawParams(elemIdx)
    \/ \E elemIdx \in 0..MaxElems : ThermalThermalConductionLawParams(elemIdx)

SpecThermal == InitThermal /\ [][NextThermal]_vars

SolidApproachOfDeck(ecl) ==
    IF "HEATCR" \in ecl.props THEN "heatcrApproach"
    ELSE IF ecl.specrock THEN "specrockApproach"
    ELSE "nullApproach"

ConductionApproachOfDeck(ecl) ==
    IF "THCONR" \in ecl.props THEN "thconrApproach"
    ELSE IF ecl.props \cap {"THCROCK", "THCOIL", "THCGAS", "THCWATER"} # {} THEN "thcApproach"
    ELSE "nullApproach"

\* C26: solidEnergyLawParams and thermalConductionLawParams throw
\* std::runtime_error exactly while initParamsForElements has not completed:
\* the approaches are undefined after construction, each getter throws if and
\* only if its approach is undefined, an approach leaves "undefined" only in a
\* step of initParamsForElements that completes, and never returns to it;
\* after a completed initParamsForElements the solid-energy approach is heatcr
\* if HEATCR is present, else specrock if SPECROCK tables exist, else null,
\* and the conduction approach is thconr if THCONR is present, else thc if one
\* of THCROCK, THCOIL, THCGAS, THCWATER is present, else null.
C26_ApproachesDefinedByInit ==
    /\ [](/\ (last.obj = "none") =>
                /\ thermal.solidEnergyApproach_ = "undefinedApproach"
                /\ thermal.thermalConductivityApproach_ = "undefinedApproach"
          /\ (last.obj = "thermal" /\ last.op = "solidEnergyLawParams") =>
                ((last.out.kind = "throw" /\ last.out = Thrown("std::runtime_error"))
                   <=> thermal.solidEnergyApproach_ = "undefinedApproach")
          /\ (last.obj = "thermal" /\ last.op = "thermalConductionLawParams") =>
                ((last.out.kind = "throw" /\ last.out = Thrown("std::runtime_error"))
                   <=> thermal.thermalConductivityApproach_ = "undefinedApproach")
          /\ (last.obj = "thermal" /\ last.op = "initParamsForElements" /\ last.out = Done) =>
                /\ thermal.solidEnergyApproach_ = SolidApproachOfDeck(last.args[1])
                /\ thermal.thermalConductivityApproach_ = ConductionApproachOfDeck(last.args[1]))
    /\ [][/\ (thermal.solidEnergyApproach_ # thermal'.solidEnergyApproach_
                \/ thermal.thermalConductivityApproach_ # thermal'.thermalConductivityApproach_)
               => (last'.op = "initParamsForElements" /\ last'.out = Done)
          /\ thermal'.solidEnergyApproach_ # "undefinedApproach"
               \/ thermal' = thermal
          /\ thermal'.thermalConductivityApproach_ # "undefinedApproach"
               \/ thermal' = thermal]_vars

\* C27: for every compressed element index e the parameters of element e are
\* read from the global arrays at compressedToCartesianElemIdx[e]: HEATCR and
\* HEATCRT in initHeatcr_, THCONR and THCONSF in initThconr_, PORO and the
\* four THC arrays in initThc_.
C27_ParamsReadAtCartesianIndex ==
    (last.obj = "thermal" /\ last.op = "initParamsForElements" /\ last.out = Done) =>
        LET ecl == last.args[1]
            c2c == last.args[2]
            At(kw, e) == IF kw \in ecl.props \cup {"HEATCRT", "PORO", "THCWATER"}
                         THEN <<kw, c2c[e]>> ELSE ZeroValue
        IN /\ thermal.solidEnergyApproach_ = "heatcrApproach" =>
                 /\ Len(thermal.solidEnergyLawParams_) = Len(c2c)
                 /\ \A e \in 1..Len(c2c) :
                       thermal.solidEnergyLawParams_[e].values
                         = <<At("HEATCR", e), At("HEATCRT", e)>>
           /\ thermal.thermalConductivityApproach_ = "thconrApproach" =>
                 /\ Len(thermal.thermalConductionLawParams_) = Len(c2c)
                 /\ \A e \in 1..Len(c2c) :
                       thermal.thermalConductionLawParams_[e].values
                         = <<At("THCONR", e), At("THCONSF", e)>>
           /\ thermal.thermalConductivityApproach_ = "thcApproach" =>
                 /\ Len(thermal.thermalConductionLawParams_) = Len(c2c)
                 /\ \A e \in 1..Len(c2c) :
                       thermal.thermalConductionLawParams_[e].values
                         = <<At("PORO", e), At("THCROCK", e), At("THCOIL", e),
                             At("THCGAS", e), At("THCWATER", e)>>

(***************************************************************************)
(* SpecCache: BlackOil::ParameterCache objects, constructed, set and read. *)
(***************************************************************************)
InitCache ==
    /\ MuxInit
    /\ GasIdle
    /\ NewtonIdle
    /\ last = NoCall
    /\ queryLog = {}

NextCache ==
    \/ \E regionIdx \in 0..MaxCacheRegion : CacheConstruct(regionIdx)
    \/ \E c \in 1..MaxCaches : \E val \in 0..MaxCacheRegion : CacheSetRegionIndex(c, val)
    \/ \E c \in 1..MaxCaches : CacheRegionIndexQuery(c)

SpecCache == InitCache /\ [][NextCache]_vars

\* C28: regionIndex() of a ParameterCache reports the region the cache was
\* given: the constructor's argument until setRegionIndex is called, then the
\* argument of the latest setRegionIndex.
C28_CacheReportsGivenRegion ==
    /\ (last.obj = "cache" /\ last.op \in {"ParameterCache", "setRegionIndex"}) =>
          regionIndex(paramCaches[last.args[1]]) = last.args[2]
    /\ (last.obj = "cache" /\ last.op = "regionIndex") =>
          last.out = Returned(paramCaches[last.args[1]].regionIdx_)
====
